---- MODULE Spec2Model ----
(***************************************************************************)
(* A model of the indexing / shape lowering helpers of                     *)
(* imperative/python/src/tensor.cpp (src/unnamed/part_000).                *)
(*                                                                         *)
(* Every entry point is a synchronous function of its arguments, so a      *)
(* behaviour is: Init draws one call (the entry point and its arguments),  *)
(* and the entry point's action runs the whole handler and stores what it  *)
(* returned or raised, together with the primitive operators it applied.   *)
(***************************************************************************)
EXTENDS Integers, Sequences, FiniteSets, TLC

\* call and ret are the call being served and what it has done so far;
\* segments says which segments of the TransformationManager are non-empty;
\* slots are the function-local static OpDef pointers of _getitem_cpp (op) and
\* _setitem_cpp (op, set_op), null (<<>>) until first written.
VARIABLES call, ret, segments, slots

vars == <<call, ret, segments, slots>>

Pending == [state |-> "pending"]

NoSegments == [trace |-> FALSE, module_trace |-> FALSE]

SegmentStates == [trace : BOOLEAN, module_trace : BOOLEAN]

NullSlots == [getitem_op |-> <<>>, setitem_op |-> <<>>, setitem_set_op |-> <<>>]

\* All sequences over S of length 0..n.
RECURSIVE SeqsUpTo(_, _)
SeqsUpTo(S, n) ==
    IF n = 0 THEN {<<>>}
    ELSE LET shorter == SeqsUpTo(S, n - 1)
         IN  shorter \cup {Append(s, x) : s \in {t \in shorter : Len(t) = n - 1}, x \in S}

RECURSIVE SeqProduct(_)
SeqProduct(s) == IF s = <<>> THEN 1 ELSE Head(s) * SeqProduct(Tail(s))

Max2(a, b) == IF a >= b THEN a ELSE b

Min2(a, b) == IF a <= b THEN a ELSE b

(***************************************************************************)
(* Dtype promotion: category_priority, max_priority, promote_types,        *)
(* scalar2dtype, _dtype_promotion, dtype_promotion.                        *)
(***************************************************************************)

\* PyArray_Descr::kind of the numpy descriptors used by the model; "complex64"
\* stands for every kind that category_priority maps to 0.
DescrKind(d) ==
    CASE d = "bool" -> "b"
      [] d = "uint8" -> "u"
      [] d \in {"int8", "int16", "int32"} -> "i"
      [] d \in {"float16", "float32"} -> "f"
      [] OTHER -> "c"

category_priority_never_zero(c) == IF c = "f" THEN 3 ELSE IF c \in {"i", "u"} THEN 2 ELSE 1

category_priority(c) ==
    CASE c = "f" -> 3
      [] c = "i" -> 2
      [] c = "u" -> 2
      [] c = "b" -> 1
      [] OTHER -> 0

RECURSIVE max_priority_from(_, _)
max_priority_from(types, max_p) ==
    IF types = <<>> THEN max_p
    ELSE max_priority_from(Tail(types), Max2(max_p, category_priority(DescrKind(Head(types)))))

max_priority(types) == IF Len(types) = 0 THEN 0 ELSE max_priority_from(types, 0)

\* numpy's promotion of two descriptors of the same category (the external rule).
DtypeRank(d) ==
    CASE d = "bool" -> 0
      [] d = "uint8" -> 1
      [] d = "int8" -> 1
      [] d = "int16" -> 2
      [] d = "int32" -> 3
      [] d = "float16" -> 1
      [] d = "float32" -> 2
      [] OTHER -> 0

PyArray_PromoteTypes(a, b) ==
    IF a = b THEN a
    ELSE IF {a, b} = {"uint8", "int8"} THEN "int16"
    ELSE IF DtypeRank(a) >= DtypeRank(b) THEN a ELSE b

RECURSIVE promote_fold(_, _)
promote_fold(used, res) ==
    IF used = <<>> THEN res
    ELSE promote_fold(Tail(used), PyArray_PromoteTypes(Head(used), res))

promote_types(types, cat) ==
    LET used_types == SelectSeq(types, LAMBDA d : category_priority(DescrKind(d)) = cat)
    IN  IF Len(used_types) = 0 THEN [err |-> "AssertionError", dtype |-> "none"]
        ELSE [err |-> "none", dtype |-> promote_fold(Tail(used_types), Head(used_types))]

\* Operands of the promotion routines.
NoDeviceMsg == [kind |-> "none", first |-> "none", second |-> "none"]

PyNone == [k |-> "None"]
PyObj == [k |-> "object"]
PyScalar(t) == [k |-> "scalar", t |-> t]
TensorOf(d, dev) == [k |-> "tensor", dtype |-> d, device |-> dev]
SymVarOf(d, dev) == [k |-> "symvar", dtype |-> d, device |-> dev]
NdArrayOf(d) == [k |-> "ndarray", dtype |-> d]

scalar2dtype(arg) ==
    IF arg.k # "scalar" THEN "null"
    ELSE IF arg.t = "bool" THEN "bool"
    ELSE IF arg.t = "int" THEN "int32"
    ELSE IF arg.t = "float" THEN "float32"
    ELSE "null"

\* The classification loop of _dtype_promotion: returns <<tensors, scalars>>.
RECURSIVE promotion_groups(_, _, _)
promotion_groups(args, tensors, scalars) ==
    IF args = <<>> THEN <<tensors, scalars>>
    ELSE LET handle == Head(args)
             rest == Tail(args)
         IN  IF handle.k = "None" THEN promotion_groups(rest, tensors, scalars)
             ELSE IF handle.k \in {"tensor", "ndarray", "symvar"}
                  THEN promotion_groups(rest, Append(tensors, handle.dtype), scalars)
             ELSE IF scalar2dtype(handle) # "null"
                  THEN promotion_groups(rest, tensors, Append(scalars, scalar2dtype(handle)))
             ELSE promotion_groups(rest, tensors, scalars)

scalars_win_tie(max_pri_scalars, max_pri_tensors) == max_pri_scalars >= max_pri_tensors

scalars_win(max_pri_scalars, max_pri_tensors) == max_pri_scalars > max_pri_tensors

\* args: the operands after the unrolling of a single wrapping tuple or list.
_dtype_promotion(args) ==
    LET groups == promotion_groups(args, <<>>, <<>>)
        tensors == groups[1]
        scalars == groups[2]
        max_pri_scalars == max_priority(scalars)
        max_pri_tensors == max_priority(tensors)
    IN  IF max_pri_scalars <= 0 /\ max_pri_tensors <= 0
        THEN [err |-> "ValueError", dtype |-> "none"]
        ELSE IF scalars_win(max_pri_scalars, max_pri_tensors)
             THEN promote_types(scalars, max_pri_scalars)
             ELSE promote_types(tensors, max_pri_tensors)

\* The argument vector seen by an entry point: the operands as they are, or one
\* tuple / list holding them.
ArgVector(operands, wrap) ==
    IF wrap = "bare" THEN operands ELSE <<[k |-> wrap, items |-> operands]>>

\* The unrolling at the head of _dtype_promotion and _get_device.
UnrollArgs(argv) ==
    IF Len(argv) = 1 /\ argv[1].k \in {"tuple", "list"} THEN argv[1].items ELSE argv

dtype_promotion(argv) ==
    IF Len(argv) = 0 THEN [err |-> "TypeError", dtype |-> "none"]
    ELSE _dtype_promotion(UnrollArgs(argv))

\* get_default_device(): the device the process is configured with.
DefaultDevice == "xpux"

device_differs_never(cn1, cn) == FALSE

device_differs(cn1, cn) == cn1 # cn

\* The loop of _get_device: valid and cn are the loop's variables.
RECURSIVE device_scan(_, _, _)
device_scan(args, valid, cn) ==
    IF args = <<>>
    THEN IF ~valid THEN [err |-> "none", msg |-> NoDeviceMsg, device |-> DefaultDevice]
         ELSE [err |-> "none", msg |-> NoDeviceMsg, device |-> cn]
    ELSE LET handle == Head(args)
         IN  IF handle.k \in {"tensor", "symvar"}
             THEN IF ~valid THEN device_scan(Tail(args), TRUE, handle.device)
                  ELSE IF device_differs(handle.device, cn)
                  THEN [err |-> "ValueError",
                        msg |-> [kind |-> "ambiguous_device", first |-> cn,
                                 second |-> handle.device],
                        device |-> "none"]
                  ELSE device_scan(Tail(args), valid, cn)
             ELSE device_scan(Tail(args), valid, cn)

\* args: the operands after the unrolling of a single wrapping tuple or list.
_get_device(args) == device_scan(args, FALSE, "none")

get_device(argv) ==
    IF Len(argv) = 0
    THEN [err |-> "TypeError", msg |-> [kind |-> "empty_input", first |-> "none",
                                        second |-> "none"],
          device |-> "none"]
    ELSE _get_device(UnrollArgs(argv))

MaxArgs == 3

PromoOperands ==
    {PyNone, PyObj, PyScalar("bool"), PyScalar("int"), PyScalar("float"),
     NdArrayOf("int16"), SymVarOf("float16", "gpu0")}
    \cup {TensorOf(d, "gpu0") : d \in {"bool", "uint8", "int8", "int32", "float32", "complex64"}}
    \cup {TensorOf("float32", "cpu0"), SymVarOf("int32", "gpu1")}

InitPromote ==
    /\ call \in [op : {"dtype_promotion", "get_device"},
                 operands : SeqsUpTo(PromoOperands, MaxArgs),
                 wrap : {"bare", "tuple", "list"}]
    /\ ret = Pending
    /\ segments = NoSegments
    /\ slots = NullSlots

DoDtypePromotion ==
    /\ call.op = "dtype_promotion"
    /\ ret = Pending
    /\ ret' = [state |-> "done"] @@ dtype_promotion(ArgVector(call.operands, call.wrap))
    /\ UNCHANGED <<call, segments, slots>>

DoGetDevice ==
    /\ call.op = "get_device"
    /\ ret = Pending
    /\ ret' = [state |-> "done"] @@ get_device(ArgVector(call.operands, call.wrap))
    /\ UNCHANGED <<call, segments, slots>>

NextPromote == DoDtypePromotion \/ DoGetDevice

SpecPromote == InitPromote /\ [][NextPromote]_vars

(***************************************************************************)
(* Index expressions and the tensors they index.                           *)
(*                                                                         *)
(* A tensor handle is [known, shape]: known = FALSE is a handle whose      *)
(* shape attribute is None and whose ndim attribute raises.  An index      *)
(* entry is one of                                                         *)
(*   [k |-> "ellipsis"], [k |-> "none"],                                   *)
(*   [k |-> "slice", start, stop, step]  (each <<>> for None, or <<n>>),    *)
(*   [k |-> "int", v]          a Python integer,                           *)
(*   [k |-> "itensor", shape]  an integer index tensor,                    *)
(*   [k |-> "bool", shape]     a boolean-dtyped tensor (dtype, ndim and    *)
(*                             shape attributes present).                  *)
(* An index expression is [tuple, items]: a tuple of entries, or one bare  *)
(* entry (tuple = FALSE, items of length 1).                               *)
(***************************************************************************)
Ellipsis == [k |-> "ellipsis"]
NoneIdx == [k |-> "none"]
SliceOf(a, b, c) == [k |-> "slice", start |-> a, stop |-> b, step |-> c]
FullSlice == SliceOf(<<>>, <<>>, <<>>)
IntIdx(v) == [k |-> "int", v |-> v]
IntTensorIdx(s) == [k |-> "itensor", shape |-> s]
BoolIdx(s) == [k |-> "bool", shape |-> s]

TensorHandle(s) == [known |-> TRUE, shape |-> s]
UnknownShapeTensor == [known |-> FALSE, shape |-> <<>>]

NoMsg == [kind |-> "none"]

is_bool_dtype(e) == e.k = "bool"

\* hasattr(k, "ndim"): tensors and arrays have it, Python values do not.
has_ndim(e) == e.k \in {"bool", "itensor"}

is_slice(e) == e.k = "slice"

is_scalar_python_only(e) == e.k = "int"

\* is_scalar: PyArray_CheckAnyScalar holds for a Python integer; a tensor or
\* symbolic node is a scalar when it is flagged so (its shape is ()); an index
\* tensor or mask of rank >= 1 is not a scalar.
is_scalar(e) == e.k = "int" \/ (e.k = "itensor" /\ e.shape = <<>>)

\* Primitive operator applications (py_apply), in the order they are made.
Prim(name, on, arg) == [op |-> name, on |-> on, arg |-> arg]

(***************************************************************************)
(* _remove_ellipsis                                                        *)
(***************************************************************************)
RECURSIVE ellipsis_scan_last(_, _, _, _)
ellipsis_scan_last(tuple_val, i, pos, cur_sum) ==
    IF i > Len(tuple_val) THEN [err |-> FALSE, pos |-> pos, cur_sum |-> cur_sum]
    ELSE LET handle == tuple_val[i]
         IN  IF handle.k = "ellipsis"
             THEN ellipsis_scan_last(tuple_val, i + 1, i, cur_sum)
             ELSE LET ndim_incr == IF is_bool_dtype(handle) /\ has_ndim(handle)
                                   THEN Len(handle.shape) ELSE 1
                  IN  ellipsis_scan_last(tuple_val, i + 1, pos, cur_sum + ndim_incr)

\* The scan: <<err, pos, cur_sum>>; err is TRUE when a second ellipsis is met.
RECURSIVE ellipsis_scan(_, _, _, _)
ellipsis_scan(tuple_val, i, pos, cur_sum) ==
    IF i > Len(tuple_val) THEN [err |-> FALSE, pos |-> pos, cur_sum |-> cur_sum]
    ELSE LET handle == tuple_val[i]
         IN  IF handle.k = "ellipsis"
             THEN IF \E j \in 1..(i - 1) : tuple_val[j].k = "ellipsis"
                  THEN [err |-> TRUE, pos |-> i, cur_sum |-> cur_sum]
                  ELSE ellipsis_scan(tuple_val, i + 1, i, cur_sum)
             ELSE LET ndim_incr == IF is_bool_dtype(handle) /\ has_ndim(handle)
                                   THEN Len(handle.shape) ELSE 1
                  IN  ellipsis_scan(tuple_val, i + 1, pos, cur_sum + ndim_incr)

FullSlicesOneMore(n) == [i \in 1..(n + 1) |-> FullSlice]

RECURSIVE FullSlices(_)
FullSlices(n) == IF n <= 0 THEN <<>> ELSE <<FullSlice>> \o FullSlices(n - 1)

_remove_ellipsis(tensor, tuple_val) ==
    LET scan == ellipsis_scan(tuple_val, 1, 0, 0)
    IN  IF scan.err
        THEN [err |-> "IndexError", msg |-> [kind |-> "multiple_ellipsis"], tuple_val |-> tuple_val]
        ELSE IF scan.pos = 0
        THEN [err |-> "none", msg |-> NoMsg, tuple_val |-> tuple_val]
        ELSE IF ~tensor.known
        THEN [err |-> "IndexError", msg |-> [kind |-> "ellipsis_unknown_ndim"],
              tuple_val |-> tuple_val]
        ELSE LET ndim_sum == Len(tensor.shape)
             IN  [err |-> "none", msg |-> NoMsg,
                  tuple_val |-> SubSeq(tuple_val, 1, scan.pos - 1)
                                \o FullSlices(ndim_sum - scan.cur_sum)
                                \o SubSeq(tuple_val, scan.pos + 1, Len(tuple_val))]


(***************************************************************************)
(* _expand_bool_dim                                                        *)
(***************************************************************************)
\* The comparison loop over the axes of one mask: the first j (0-based) whose
\* sizes differ, "oob" when cur_shape has no item tdim + j - offset (the tuple
\* access raises), or "ok".
RECURSIVE bool_dim_check(_, _, _, _)
bool_dim_check(cur_shape, ishape, base, j) ==
    IF j >= Len(ishape) THEN [r |-> "ok", j |-> j]
    ELSE IF base + j + 1 > Len(cur_shape) THEN [r |-> "oob", j |-> j]
    ELSE IF cur_shape[base + j + 1] # ishape[j + 1] THEN [r |-> "mismatch", j |-> j]
    ELSE bool_dim_check(cur_shape, ishape, base, j + 1)

\* tdim after an entry that is not expanded: a boolean entry of rank <= 1 is
\* appended without advancing tdim, every other entry advances it by one.
tdim_after_plain(k, tdim) == IF is_bool_dtype(k) THEN tdim ELSE tdim + 1

\* offset after one expanded mask of rank ndim.
offset_after_expand(offset, ndim) == offset + 1

\* new_shape of one expansion; i is the 0-based position of the mask.
expanded_shape(cur_shape, ishape, i, tdim, offset) ==
    SubSeq(cur_shape, 1, i)
    \o <<SeqProduct(ishape)>>
    \o SubSeq(cur_shape, tdim + Len(ishape) - offset + 1, Len(cur_shape))

\* The loop of _expand_bool_dim from 1-based position p on.  st carries
\* cur_shape, offset, tdim and the primitives applied so far.  Both branches
\* (symbolic shape or not) flatten the mask with k.reshape(-1) and reshape the
\* tensor: with a shape tensor when is_sym, with the shape tuple otherwise.
RECURSIVE expand_bool_loop(_, _, _, _)
expand_bool_loop(tuple_val, p, st, is_sym) ==
    IF p > Len(tuple_val)
    THEN [err |-> "none", msg |-> NoMsg, shape |-> st.cur_shape, prims |-> st.prims]
    ELSE LET k == tuple_val[p]
         IN  IF is_bool_dtype(k) /\ Len(k.shape) > 1
             THEN LET ndim == Len(k.shape)
                      chk == bool_dim_check(st.cur_shape, k.shape, st.tdim - st.offset, 0)
                  IN  IF chk.r = "mismatch"
                      THEN [err |-> "IndexError",
                            msg |-> [kind |-> "bool_mismatch", dim |-> st.tdim + chk.j,
                                     tsize |-> st.cur_shape[st.tdim + chk.j - st.offset + 1],
                                     msize |-> k.shape[chk.j + 1]],
                            shape |-> st.cur_shape, prims |-> st.prims]
                      ELSE IF chk.r = "oob" \/ p - 1 > Len(st.cur_shape)
                      THEN [err |-> "IndexError", msg |-> [kind |-> "tuple_index_out_of_range"],
                            shape |-> st.cur_shape, prims |-> st.prims]
                      ELSE LET new_shape == expanded_shape(st.cur_shape, k.shape, p - 1,
                                                           st.tdim, st.offset)
                           IN  expand_bool_loop(tuple_val, p + 1,
                                   [cur_shape |-> new_shape,
                                    offset |-> offset_after_expand(st.offset, ndim),
                                    tdim |-> st.tdim + ndim,
                                    prims |-> st.prims
                                              \o <<Prim("Reshape", "index",
                                                        [shape |-> <<-1>>, by |-> "tuple"]),
                                                   Prim("Reshape", "tensor",
                                                        [shape |-> new_shape,
                                                         by |-> IF is_sym THEN "tensor1d"
                                                                ELSE "tuple"])>>],
                                   is_sym)
             ELSE expand_bool_loop(tuple_val, p + 1,
                      [st EXCEPT !.tdim = tdim_after_plain(k, st.tdim)], is_sym)

_expand_bool_dim(tensor, tuple_val, is_sym) ==
    expand_bool_loop(tuple_val, 1,
                     [cur_shape |-> tensor.shape, offset |-> 0, tdim |-> 0, prims |-> <<>>],
                     is_sym)


(***************************************************************************)
(* _get_index and _unpack_indexes                                          *)
(***************************************************************************)
\* _get_index: the index tensor recorded for one value, and the CondTake it
\* applies when the value is boolean.
index_operand(v) ==
    IF v.k = "bool" THEN [src |-> "condtake", shape |-> v.shape]
    ELSE IF v.k = "itensor" THEN [src |-> "tensor", shape |-> v.shape]
    ELSE IF v.k = "int" THEN [src |-> "const", v |-> v.v]
    ELSE [src |-> "const_object", kind |-> v.k]

index_prims(v) ==
    IF v.k = "bool" THEN <<Prim("CondTake", "index", [shape |-> v.shape])>> ELSE <<>>

\* The first loop of _unpack_indexes: raises on the first None, else counts.
RECURSIVE count_indexes(_, _, _)
count_indexes(tuple_val, i, acc) ==
    IF i > Len(tuple_val) THEN acc
    ELSE LET k == tuple_val[i]
         IN  IF k.k = "none" THEN [acc EXCEPT !.newaxis = TRUE]
             ELSE IF k.k = "ellipsis"
             THEN count_indexes(tuple_val, i + 1, [acc EXCEPT !.need_remove_ellipsis = TRUE])
             ELSE IF is_bool_dtype(k) /\ has_ndim(k)
             THEN count_indexes(tuple_val, i + 1,
                      [acc EXCEPT !.idx_ndim = @ + Len(k.shape),
                                  !.need_expand_bool_dim = @ \/ Len(k.shape) > 1])
             ELSE count_indexes(tuple_val, i + 1, [acc EXCEPT !.idx_ndim = @ + 1])

too_many_indices_ge(idx_ndim, inp_ndim) == idx_ndim >= inp_ndim

too_many_indices(idx_ndim, inp_ndim) == idx_ndim > inp_ndim

\* push on one part of a slice (<<>> is None, <<n>> the integer n) and on a
\* value entry: the flag appended to the item, the operands and the primitives.
push_part(part) ==
    IF part = <<>> THEN [flag |-> FALSE, tensors |-> <<>>, prims |-> <<>>]
    ELSE [flag |-> TRUE, tensors |-> <<index_operand(IntIdx(part[1]))>>, prims |-> <<>>]

push(v) == [flag |-> TRUE, tensors |-> <<index_operand(v)>>, prims |-> index_prims(v)]

value_item_as_start(cur_axis) == <<cur_axis, TRUE, FALSE, FALSE, FALSE>>

value_item(cur_axis) == <<cur_axis, FALSE, FALSE, FALSE, TRUE>>

\* The descriptor loop of _unpack_indexes, from 1-based position i (cur_axis is
\* i - 1).
RECURSIVE build_items(_, _, _)
build_items(tuple_val, i, acc) ==
    IF i > Len(tuple_val) THEN acc
    ELSE LET handle == tuple_val[i]
             cur_axis == i - 1
             sub == acc.use_subtensor /\ (is_scalar(handle) \/ is_slice(handle))
         IN  IF is_slice(handle)
             THEN IF handle.start = <<>> /\ handle.stop = <<>> /\ handle.step = <<>>
                  THEN build_items(tuple_val, i + 1, [acc EXCEPT !.use_subtensor = sub])
                  ELSE LET a == push_part(handle.start)
                           b == push_part(handle.stop)
                           c == push_part(handle.step)
                       IN  build_items(tuple_val, i + 1,
                               [use_subtensor |-> sub,
                                items |-> Append(acc.items,
                                                 <<cur_axis, a.flag, b.flag, c.flag, FALSE>>),
                                tensors |-> acc.tensors \o a.tensors \o b.tensors \o c.tensors,
                                prims |-> acc.prims \o a.prims \o b.prims \o c.prims])
             ELSE LET a == push(handle)
                  IN  build_items(tuple_val, i + 1,
                          [use_subtensor |-> sub,
                           items |-> Append(acc.items, value_item(cur_axis)),
                           tensors |-> acc.tensors \o a.tensors,
                           prims |-> acc.prims \o a.prims])

IndexFailure(err, msg, prims) ==
    [err |-> err, msg |-> msg, prims |-> prims, shape |-> <<>>, tensors |-> <<>>,
     items |-> <<>>, use_subtensor |-> FALSE, need_expand_bool_dim |-> FALSE,
     tuple_val |-> <<>>]

\* _unpack_indexes(inp, idx): the plan (inp's shape as the plan sees it, tensors,
\* items, use_subtensor, need_expand_bool_dim), or the error raised, with the
\* primitives applied on the way.
_unpack_indexes(inp, idx, is_sym) ==
    LET tuple_val == idx.items
        cnt == count_indexes(tuple_val, 1,
                   [newaxis |-> FALSE, need_remove_ellipsis |-> FALSE,
                    need_expand_bool_dim |-> FALSE, idx_ndim |-> 0])
    IN  IF cnt.newaxis
        THEN IndexFailure("IndexError", [kind |-> "newaxis"], <<>>)
        ELSE IF inp.known /\ too_many_indices(cnt.idx_ndim, Len(inp.shape))
        THEN IndexFailure("IndexError",
                          [kind |-> "too_many_indices", ndim |-> Len(inp.shape),
                           indexed |-> cnt.idx_ndim], <<>>)
        ELSE LET re == IF cnt.need_remove_ellipsis THEN _remove_ellipsis(inp, tuple_val)
                       ELSE [err |-> "none", msg |-> NoMsg, tuple_val |-> tuple_val]
             IN  IF re.err # "none" THEN IndexFailure(re.err, re.msg, <<>>)
                 ELSE LET ex == IF cnt.need_expand_bool_dim /\ inp.known
                                THEN _expand_bool_dim(inp, re.tuple_val, is_sym)
                                ELSE [err |-> "none", msg |-> NoMsg, shape |-> inp.shape,
                                      prims |-> <<>>]
                      IN  IF ex.err # "none" THEN IndexFailure(ex.err, ex.msg, ex.prims)
                          ELSE LET b == build_items(re.tuple_val, 1,
                                            [use_subtensor |-> TRUE, items |-> <<>>,
                                             tensors |-> <<>>, prims |-> <<>>])
                               IN  [err |-> "none", msg |-> NoMsg,
                                    prims |-> ex.prims \o b.prims,
                                    shape |-> ex.shape, tensors |-> b.tensors,
                                    items |-> b.items, use_subtensor |-> b.use_subtensor,
                                    need_expand_bool_dim |-> cnt.need_expand_bool_dim,
                                    tuple_val |-> re.tuple_val]


(***************************************************************************)
(* _try_cond_take, _getitem_cpp, _setitem_cpp                              *)
(***************************************************************************)
same_rank(a, b) == Len(a) = Len(b)

same_shape(a, b) == a = b

\* TRUE when the shortcut applies: the index has dtype and shape attributes, is
\* boolean, and _make_shape_tuple of both shapes are equal.
_try_cond_take(tensor, index) ==
    /\ ~index.tuple
    /\ index.items[1].k \in {"bool", "itensor"}
    /\ is_bool_dtype(index.items[1])
    /\ same_shape(index.items[1].shape, tensor.shape)

gather_op(use_subtensor) == IF use_subtensor THEN "Subtensor" ELSE "IndexingMultiAxisVec"

set_op(use_subtensor) == IF use_subtensor THEN "SetSubtensor" ELSE "IndexingSetMultiAxisVec"

CallFailure(err, msg, prims, plan) ==
    [err |-> err, msg |-> msg, prims |-> prims, plan |-> plan, path |-> "normalizer",
     out |-> "none"]

_getitem_cpp(inp, idx, is_sym) ==
    IF _try_cond_take(inp, idx)
    THEN [err |-> "none", msg |-> NoMsg,
          prims |-> <<Prim("CondTake", "tensor", [shape |-> idx.items[1].shape])>>,
          plan |-> IndexFailure("none", NoMsg, <<>>), path |-> "cond_take",
          out |-> "CondTake[0]"]
    ELSE LET up == _unpack_indexes(inp, idx, is_sym)
         IN  IF up.err # "none" THEN CallFailure(up.err, up.msg, up.prims, up)
             ELSE [err |-> "none", msg |-> NoMsg,
                   prims |-> Append(up.prims,
                                    Prim(gather_op(up.use_subtensor), "tensor",
                                         [items |-> up.items, tensors |-> up.tensors])),
                   plan |-> up, path |-> "normalizer",
                   out |-> gather_op(up.use_subtensor)]

\* std::to_string of a size, as its characters.
DigitChars == <<"0", "1", "2", "3", "4", "5", "6", "7", "8", "9">>

RECURSIVE to_string(_)
to_string(n) ==
    IF n < 10 THEN <<DigitChars[n + 1]>>
    ELSE to_string(n \div 10) \o <<DigitChars[(n % 10) + 1]>>

\* The loops that render a shape into the ValueError message.
RECURSIVE shape_text_from(_, _, _)
shape_text_from(shape, j, acc) ==
    IF j >= Len(shape) THEN acc
    ELSE shape_text_from(shape, j + 1,
             acc \o to_string(shape[j + 1]) \o (IF j # 0 THEN <<",">> ELSE <<>>))

shape_text(shape) == shape_text_from(shape, 0, <<>>)

size_mismatch_strict(vs, ts) == vs # ts

size_mismatch_nonunit(vs, ts) == vs # 1

size_mismatch(vs, ts) == vs # 1 /\ vs # ts

\* The broadcast check of _setitem_cpp: TRUE when some trailing dimension fails.
RECURSIVE broadcast_rejects(_, _, _)
broadcast_rejects(value_shape, tmp_result_shape, i) ==
    IF ~(i < Len(value_shape) /\ i < Len(tmp_result_shape)) THEN FALSE
    ELSE LET vs == value_shape[Len(value_shape) - i]
             ts == tmp_result_shape[Len(tmp_result_shape) - i]
         IN  IF size_mismatch(vs, ts) THEN TRUE
             ELSE broadcast_rejects(value_shape, tmp_result_shape, i + 1)

reshape_back_never(up) == FALSE

\* up[4]: the result is reshaped to org_shape when a mask was to be expanded.
reshape_back(up) == up.need_expand_bool_dim

\* region is the shape of the gather primitive's output as the engine reports it.
_setitem_cpp(inp, idx, val, region, is_sym) ==
    LET up == _unpack_indexes(inp, idx, is_sym)
    IN  IF up.err # "none" THEN CallFailure(up.err, up.msg, up.prims, up)
        ELSE LET desc == [items |-> up.items, tensors |-> up.tensors]
                 gathered == Append(up.prims, Prim(gather_op(up.use_subtensor), "tensor", desc))
             IN  IF broadcast_rejects(val, region, 0)
                 THEN CallFailure("ValueError",
                                  [kind |-> "cannot_copy",
                                   value_text |-> <<"(">> \o shape_text(val) \o <<")">>,
                                   region_text |-> <<"(">> \o shape_text(region) \o <<")">>],
                                  gathered, up)
                 ELSE [err |-> "none", msg |-> NoMsg,
                       prims |-> gathered
                                 \o <<Prim("Broadcast", "value", [shape |-> region]),
                                      Prim(set_op(up.use_subtensor), "tensor", desc)>>
                                 \o (IF reshape_back(up)
                                     THEN <<Prim("Reshape", "result",
                                                 [shape |-> inp.shape, by |-> "tuple"])>>
                                     ELSE <<>>),
                       plan |-> up, path |-> "normalizer",
                       out |-> IF reshape_back(up) THEN "Reshape"
                               ELSE set_op(up.use_subtensor)]

\* The descriptor of a select, gather, set or scatter primitive: its kind and
\* its item list (cpp_items).
OpDesc(kind, items) == [kind |-> kind, items |-> items]

\* The static slot of _getitem_cpp after a call that returned r: op is assigned
\* once the index is unpacked; the shortcut and a failed unpacking leave it.
slots_after_get(s, r) ==
    IF r.path = "normalizer" /\ r.plan.err = "none"
    THEN [s EXCEPT !.getitem_op = <<OpDesc(gather_op(r.plan.use_subtensor), r.plan.items)>>]
    ELSE s

\* The static slots of _setitem_cpp after a call that returned r: op is assigned
\* once the index is unpacked, set_op once the broadcast check has passed.
slots_after_set(s, r) ==
    IF r.plan.err # "none" THEN s
    ELSE [s EXCEPT !.setitem_op = <<OpDesc(gather_op(r.plan.use_subtensor), r.plan.items)>>,
                   !.setitem_set_op = IF r.err = "none"
                                      THEN <<OpDesc(set_op(r.plan.use_subtensor),
                                                    r.plan.items)>>
                                      ELSE @]

(***************************************************************************)
(* The calls of the index specification.                                   *)
(***************************************************************************)
MaxLen == 3

MaxRank == 4

Dims == {2, 3}

IndexEntries ==
    {Ellipsis, NoneIdx, FullSlice, SliceOf(<<0>>, <<>>, <<1>>),
     IntIdx(0), IntTensorIdx(<<>>), IntTensorIdx(<<2>>),
     BoolIdx(<<2>>), BoolIdx(<<2, 2>>), BoolIdx(<<2, 3>>)}

IndexExprs ==
    [tuple : {TRUE}, items : SeqsUpTo(IndexEntries, MaxLen)]
    \cup [tuple : {FALSE}, items : {<<e>> : e \in IndexEntries}]

IndexedTensors == {TensorHandle(s) : s \in SeqsUpTo(Dims, MaxRank)} \cup {UnknownShapeTensor}

HasWideMask(idx) ==
    \E i \in 1..Len(idx.items) : idx.items[i].k = "bool" /\ Len(idx.items[i].shape) > 1

\* cpp_use_symbolic_shape() is read only while a mask of rank > 1 is expanded.
SymChoices(idx) == IF HasWideMask(idx) THEN BOOLEAN ELSE {FALSE}

\* Left out: a bare boolean operand on a handle without a shape (the shortcut
\* would read the shape of None), and an assignment through a mask of rank > 1
\* into such a handle (the final reshape would be given None).
GetCallOk(c) == c.inp.known \/ c.idx.tuple \/ c.idx.items[1].k # "bool"

SetCallOk(c) == c.inp.known \/ ~HasWideMask(c.idx)

GetCalls ==
    {c \in [op : {"getitem"}, inp : IndexedTensors, idx : IndexExprs, is_sym : BOOLEAN] :
        GetCallOk(c) /\ c.is_sym \in SymChoices(c.idx)}

\* Assignments.  The gathered region's shape is what the engine reports for the
\* gather primitive's output.  Every index expression is tried with a scalar
\* value; every value shape is tried against every region shape r through
\* t[0::1] on a tensor of shape r (the region is the whole tensor) and through
\* t[i] with an index tensor i of shape (2) (the region is (2) + r[1:]).
MaxShapeRank == 2

ValueShapes == SeqsUpTo({1, 2, 3, 5}, MaxShapeRank)

RegionShapes == SeqsUpTo(Dims, MaxShapeRank) \ {<<>>}

SetCalls ==
    {c \in [op : {"setitem"}, inp : IndexedTensors, idx : IndexExprs, is_sym : BOOLEAN,
            val : {<<>>}, region : {<<2>>}] :
        SetCallOk(c) /\ c.is_sym \in SymChoices(c.idx)}
    \cup {[op |-> "setitem", inp |-> TensorHandle(r),
           idx |-> [tuple |-> FALSE, items |-> <<SliceOf(<<0>>, <<>>, <<1>>)>>],
           is_sym |-> FALSE, val |-> v, region |-> r] :
              r \in RegionShapes, v \in ValueShapes}
    \cup {[op |-> "setitem", inp |-> TensorHandle(r),
           idx |-> [tuple |-> TRUE, items |-> <<IntTensorIdx(<<2>>)>>],
           is_sym |-> FALSE, val |-> v, region |-> <<2>> \o Tail(r)] :
              r \in RegionShapes, v \in ValueShapes}

InitIndex ==
    /\ call \in GetCalls \cup SetCalls
    /\ ret = Pending
    /\ segments = NoSegments
    /\ slots = NullSlots

DoGetItem ==
    /\ call.op = "getitem"
    /\ ret = Pending
    /\ \E r \in {_getitem_cpp(call.inp, call.idx, call.is_sym)} :
           /\ ret' = [state |-> "done"] @@ r
           /\ slots' = slots_after_get(slots, r)
    /\ UNCHANGED <<call, segments>>

DoSetItem ==
    /\ call.op = "setitem"
    /\ ret = Pending
    /\ \E r \in {_setitem_cpp(call.inp, call.idx, call.val, call.region, call.is_sym)} :
           /\ ret' = [state |-> "done"] @@ r
           /\ slots' = slots_after_set(slots, r)
    /\ UNCHANGED <<call, segments>>

NextIndex == DoGetItem \/ DoSetItem

SpecIndex == InitIndex /\ [][NextIndex]_vars


(***************************************************************************)
(* Properties of get and set.                                              *)
(***************************************************************************)
IndexCallDone == ret.state = "done" /\ call.op \in {"getitem", "setitem"}

EllipsisCount(items) == Cardinality({i \in 1..Len(items) : items[i].k = "ellipsis"})

HasNone(items) == \E i \in 1..Len(items) : items[i].k = "none"

SelectOrSetOps == {"Subtensor", "IndexingMultiAxisVec", "SetSubtensor", "IndexingSetMultiAxisVec"}

AppliedOps == {ret.prims[i].op : i \in 1..Len(ret.prims)}

\* Axes consumed by one entry: a boolean mask its rank, any other entry one.
AxesOf(e) == IF e.k = "bool" THEN Len(e.shape) ELSE 1

\* Axes consumed by the first n entries; an ellipsis is not counted, and
\* neither is a None, which names no axis of the tensor.
RECURSIVE AxesConsumedBy(_, _)
AxesConsumedBy(items, n) ==
    IF n = 0 THEN 0
    ELSE AxesConsumedBy(items, n - 1)
         + (IF items[n].k \in {"ellipsis", "none"} THEN 0 ELSE AxesOf(items[n]))

AxesConsumed(items) == AxesConsumedBy(items, Len(items))

\* C1: every index tuple holding two or more ellipsis markers makes get and set
\* fail with IndexError, whatever the other entries are, and no select, gather,
\* set or scatter primitive is applied.
C1_MultipleEllipsisRejected ==
    (IndexCallDone /\ call.idx.tuple /\ EllipsisCount(call.idx.items) >= 2)
        => (ret.err = "IndexError" /\ AppliedOps \cap SelectOrSetOps = {})

\* A set through (..., 0, ...) on a rank-3 tensor was rejected for its two markers.
C1_Witness ==
    /\ IndexCallDone
    /\ call.op = "setitem"
    /\ call.idx.items = <<Ellipsis, IntIdx(0), Ellipsis>>
    /\ call.inp = TensorHandle(<<2, 3, 2>>)
    /\ ret.err = "IndexError"
    /\ ret.msg.kind = "multiple_ellipsis"

\* C2 as stated: with the tensor's rank r known, an index whose non-ellipsis
\* entries consume more than r axes fails with IndexError whose message states r
\* and the consumed count, and an index consuming at most r axes is not rejected
\* by this check.
C2_TooManyIndicesAsStated ==
    (IndexCallDone /\ call.inp.known)
        => LET r == Len(call.inp.shape)
               c == AxesConsumed(call.idx.items)
           IN  IF c > r
               THEN /\ ret.err = "IndexError"
                    /\ ret.msg = [kind |-> "too_many_indices", ndim |-> r, indexed |-> c]
               ELSE ret.msg.kind # "too_many_indices"

\* C2 as amended: the same, for index tuples that hold no None entry (a None is
\* rejected first, as "newaxis is not allowed here").
C2_TooManyIndices ==
    (IndexCallDone /\ call.inp.known /\ ~HasNone(call.idx.items))
        => LET r == Len(call.inp.shape)
               c == AxesConsumed(call.idx.items)
           IN  IF c > r
               THEN /\ ret.err = "IndexError"
                    /\ ret.msg = [kind |-> "too_many_indices", ndim |-> r, indexed |-> c]
                    /\ ret.prims = <<>>
               ELSE ret.msg.kind # "too_many_indices"

\* Three scalar indices on a rank-2 tensor were rejected, naming 2 and 3.
C2_Witness ==
    /\ IndexCallDone
    /\ call.op = "getitem"
    /\ call.inp = TensorHandle(<<2, 3>>)
    /\ call.idx.items = <<IntIdx(0), IntIdx(0), IntIdx(0)>>
    /\ ret.err = "IndexError"
    /\ ret.msg = [kind |-> "too_many_indices", ndim |-> 2, indexed |-> 3]


\* The calls on which mask validation is reached: the shape is known, the index
\* holds no None and at most one ellipsis, consumes no more axes than the
\* tensor has, and is not the conditional-take shortcut.
MaskValidationReached ==
    /\ IndexCallDone
    /\ call.inp.known
    /\ ~HasNone(call.idx.items)
    /\ EllipsisCount(call.idx.items) <= 1
    /\ AxesConsumed(call.idx.items) <= Len(call.inp.shape)
    /\ ret.path = "normalizer"

\* The index tuple with its ellipsis replaced by full slices.
ExpandedIndex ==
    LET items == call.idx.items
        fill == Len(call.inp.shape) - AxesConsumed(items)
    IN  IF EllipsisCount(items) = 0 THEN items
        ELSE LET pos == CHOOSE i \in 1..Len(items) : items[i].k = "ellipsis"
             IN  SubSeq(items, 1, pos - 1) \o [i \in 1..fill |-> FullSlice]
                 \o SubSeq(items, pos + 1, Len(items))

WideMaskAt(t, p) == t[p].k = "bool" /\ Len(t[p].shape) > 1

\* The 0-based axes on which the mask at position p of t differs from the tensor.
MaskBadAxes(t, p, shape) ==
    LET a == AxesConsumedBy(t, p - 1)
    IN  {j \in 0..(Len(t[p].shape) - 1) : shape[a + j + 1] # t[p].shape[j + 1]}

BadMasks(t, shape) == {p \in 1..Len(t) : WideMaskAt(t, p) /\ MaskBadAxes(t, p, shape) # {}}

SetMin(S) == CHOOSE x \in S : \A y \in S : x <= y

\* C3: a boolean index of rank k > 1 is accepted iff its shape equals the
\* tensor's original shape on the axes a .. a+k-1, a being the number of axes
\* consumed by the entries before it (masks of any rank count their rank);
\* otherwise normalization fails with IndexError naming the first mismatching
\* axis a+j, the tensor's size on it and the mask's size on it.
C3_MaskShapeValidated ==
    MaskValidationReached
        => LET t == ExpandedIndex
               shape == call.inp.shape
               bad == BadMasks(t, shape)
           IN  IF bad = {}
               THEN ret.err # "IndexError"
               ELSE LET p == SetMin(bad)
                        j == SetMin(MaskBadAxes(t, p, shape))
                        a == AxesConsumedBy(t, p - 1)
                    IN  /\ ret.err = "IndexError"
                        /\ ret.msg = [kind |-> "bool_mismatch", dim |-> a + j,
                                      tsize |-> shape[a + j + 1],
                                      msize |-> t[p].shape[j + 1]]

\* The tensor's shape with the axes of every mask of rank > 1 collapsed into one.
RECURSIVE CollapsedShape(_, _, _)
CollapsedShape(t, p, shape) ==
    IF p > Len(t) THEN shape
    ELSE LET n == AxesOf(t[p])
         IN  <<SeqProduct(SubSeq(shape, 1, n))>>
             \o CollapsedShape(t, p + 1, SubSeq(shape, n + 1, Len(shape)))

ItemsOnAxis(axis) == {i \in 1..Len(ret.plan.items) : ret.plan.items[i][1] = axis}

\* C4: when the masks of rank > 1 pass validation, the returned plan sees the
\* tensor with each mask's axes collapsed into one axis of the product size and
\* every other axis unchanged, holds exactly one descriptor per mask, with the
\* index flag true and the slice flags false, and has use_basic_path false and
\* expanded_mask true.
C4_MaskCollapsedPlan ==
    (MaskValidationReached /\ HasWideMask(call.idx)
     /\ BadMasks(ExpandedIndex, call.inp.shape) = {})
        => LET t == ExpandedIndex
           IN  /\ ret.plan.err = "none"
               /\ ret.plan.shape = CollapsedShape(t, 1, call.inp.shape)
               /\ \A p \in 1..Len(t) :
                      WideMaskAt(t, p)
                          => \E i \in 1..Len(ret.plan.items) :
                                 /\ ItemsOnAxis(p - 1) = {i}
                                 /\ ret.plan.items[i] = <<p - 1, FALSE, FALSE, FALSE, TRUE>>
               /\ ~ret.plan.use_subtensor
               /\ ret.plan.need_expand_bool_dim


\* The value's size is 1 or the region's size on every dimension, counted from
\* the last, that both shapes have.
BroadcastCompatible(v, r) ==
    \A i \in 1..Min2(Len(v), Len(r)) : v[Len(v) - i + 1] \in {1, r[Len(r) - i + 1]}

SetOps == {"SetSubtensor", "IndexingSetMultiAxisVec"}

\* C6: in set, once the region is gathered, a value whose size is 1 or the
\* region's size on every dimension counted from the last is broadcast to the
\* region's shape and the set or scatter primitive is applied; a value that
\* violates this on some dimension makes the call fail with ValueError, and no
\* set or scatter primitive is applied.
C6_BroadcastCheck ==
    (ret.state = "done" /\ call.op = "setitem" /\ ret.plan.err = "none")
        => IF BroadcastCompatible(call.val, call.region)
           THEN /\ ret.err = "none"
                /\ \E i \in 1..(Len(ret.prims) - 1) :
                       /\ ret.prims[i].op = "Broadcast"
                       /\ ret.prims[i].on = "value"
                       /\ ret.prims[i].arg.shape = call.region
                       /\ ret.prims[i + 1].op \in SetOps
           ELSE /\ ret.err = "ValueError"
                /\ AppliedOps \cap SetOps = {}

\* A value of shape (1,3) was broadcast into a region of shape (2,3) and set.
C6_Witness ==
    /\ ret.state = "done"
    /\ call.op = "setitem"
    /\ call.val = <<1, 3>>
    /\ call.region = <<2, 3>>
    /\ ret.err = "none"
    /\ "SetSubtensor" \in AppliedOps

\* A shape's sizes in decimal, a comma between consecutive sizes.
RECURSIVE CommaJoined(_)
CommaJoined(shape) ==
    IF shape = <<>> THEN <<>>
    ELSE IF Len(shape) = 1 THEN to_string(shape[1])
    ELSE to_string(shape[1]) \o <<",">> \o CommaJoined(Tail(shape))

Parenthesized(text) == <<"(">> \o text \o <<")">>

\* C7: the ValueError of a rejected broadcast renders both shapes with commas
\* between consecutive sizes: "(2,3)" for the region (2,3), for every rank >= 1.
C7_MismatchMessageCommaJoined ==
    (ret.state = "done" /\ call.op = "setitem" /\ ret.err = "ValueError")
        => /\ ret.msg.kind = "cannot_copy"
           /\ ret.msg.region_text = Parenthesized(CommaJoined(call.region))
           /\ ret.msg.value_text = Parenthesized(CommaJoined(call.val))

\* C10: get with a bare boolean-dtyped index whose shape equals the tensor's
\* shape applies exactly one primitive, conditional-take on (tensor, mask), and
\* returns its first output; for every other index the shortcut is not taken and
\* the normalizer runs.
C10_CondTakeShortcut ==
    (ret.state = "done" /\ call.op = "getitem" /\ call.inp.known)
        => IF /\ ~call.idx.tuple
              /\ call.idx.items[1].k = "bool"
              /\ call.idx.items[1].shape = call.inp.shape
           THEN /\ ret.err = "none"
                /\ ret.path = "cond_take"
                /\ ret.prims = <<Prim("CondTake", "tensor", [shape |-> call.idx.items[1].shape])>>
                /\ ret.out = "CondTake[0]"
           ELSE /\ ret.path = "normalizer"
                /\ \A i \in 1..Len(ret.prims) :
                       ~(ret.prims[i].op = "CondTake" /\ ret.prims[i].on = "tensor")

\* Both sides of C10 happen: a (2,3) mask on a (2,3) tensor took the shortcut.
C10_Witness ==
    /\ ret.state = "done"
    /\ call.op = "getitem"
    /\ call.inp = TensorHandle(<<2, 3>>)
    /\ call.idx = [tuple |-> FALSE, items |-> <<BoolIdx(<<2, 3>>)>>]
    /\ ret.path = "cond_take"
    /\ Len(ret.prims) = 1


(***************************************************************************)
(* Properties of dtype promotion.                                          *)
(***************************************************************************)
\* bool = 1 < integer = 2 < float = 3, anything else 0.
DtypeCategory(d) ==
    IF d \in {"float16", "float32"} THEN 3
    ELSE IF d \in {"uint8", "int8", "int16", "int32"} THEN 2
    ELSE IF d = "bool" THEN 1
    ELSE 0

SetMax(S) == CHOOSE x \in S : \A y \in S : x >= y

TensorGroup(operands) ==
    {operands[i].dtype : i \in {j \in 1..Len(operands) :
                                    operands[j].k \in {"tensor", "ndarray", "symvar"}}}

ScalarGroup(operands) ==
    {scalar2dtype(operands[i]) : i \in {j \in 1..Len(operands) : operands[j].k = "scalar"}}

GroupCategory(G) == SetMax({DtypeCategory(d) : d \in G} \cup {0})

\* The least dtype of category cat that every member of G of that category
\* promotes to.
PromotionOf(G, cat) ==
    LET members == {d \in G : DtypeCategory(d) = cat}
        bounds == {r \in {"bool", "uint8", "int8", "int16", "int32", "float16", "float32"} :
                      /\ DtypeCategory(r) = cat
                      /\ \A d \in members : PyArray_PromoteTypes(d, r) = r}
    IN  CHOOSE r \in bounds : \A q \in bounds : PyArray_PromoteTypes(r, q) = q

\* C8: the result comes from the scalars only when their maximum category is
\* strictly higher than the tensors' maximum category, and from the tensors
\* otherwise (a tie included); it is the promotion of exactly the members of
\* the chosen group whose category is that group's maximum.
C8_PromotionGroupChoice ==
    (ret.state = "done" /\ call.op = "dtype_promotion")
        => LET T == TensorGroup(call.operands)
               S == ScalarGroup(call.operands)
               ct == GroupCategory(T)
               cs == GroupCategory(S)
           IN  (ct > 0 \/ cs > 0)
                   => /\ ret.err = "none"
                      /\ ret.dtype = IF cs > ct THEN PromotionOf(S, cs) ELSE PromotionOf(T, ct)

\* An integer scalar tied with an int8 tensor on the integer category, and the
\* result was the tensor's int8.
C8_Witness ==
    /\ ret.state = "done"
    /\ call.op = "dtype_promotion"
    /\ call.operands = <<PyScalar("int"), TensorOf("int8", "gpu0")>>
    /\ ret.err = "none"
    /\ ret.dtype = "int8"


(***************************************************************************)
(* _expand_args, _make_shape_tuple, tuple2vector, enable_fastpath,         *)
(* _reshape_cpp, for shapes given as literal integers.                     *)
(*                                                                         *)
(* The operand is [kind]: kind "tensor" is a TensorWrapper, "symvar" a     *)
(* PySymbolVar; segments.trace / segments.module_trace say whether         *)
(* the Trace / ModuleTrace segment of the TransformationManager is         *)
(* non-empty.  The shape argument is [form, dims, handles]: the integers   *)
(* dims given as one tuple, as one list, or as separate arguments; handles *)
(* is the set of 0-based positions whose entry is given as a Tensor        *)
(* holding the integer (one whose numpy() can be read) instead of a        *)
(* Python integer.                                                         *)
(***************************************************************************)
enable_fastpath_any_operand(inp) == ~(segments.trace \/ segments.module_trace)

enable_fastpath(inp) ==
    ~(inp.kind # "tensor" \/ segments.trace \/ segments.module_trace)

\* _expand_args: one sequence argument is passed through, separate arguments
\* are collected into a list.
_expand_args(args) ==
    IF args.form \in {"tuple", "list"} THEN args ELSE [args EXCEPT !.form = "list"]

\* _make_shape_tuple of a list or tuple: the tuple of its items, solve_one
\* having replaced every Tensor entry by the integer read from its numpy().
_make_shape_tuple(shape) == [form |-> "tuple", dims |-> shape.dims]

\* tuple2vector: every item of the tuple is a PyLong here.
tuple2vector(shape) ==
    IF shape.form # "tuple" THEN [shp |-> <<>>, ok |-> FALSE]
    ELSE [shp |-> shape.dims, ok |-> TRUE]

\* The scan of _reshape_cpp for -1 entries; i is 0-based, unspec_axis is -1
\* until a first -1 entry is met.
RECURSIVE reshape_scan_keep_first(_, _, _)
reshape_scan_keep_first(tup, i, unspec_axis) ==
    IF i >= Len(tup) THEN [err |-> "none", msg |-> NoMsg, unspec_axis |-> unspec_axis]
    ELSE LET obj == tup[i + 1]
         IN  IF obj < 0
             THEN IF obj # -1
                  THEN [err |-> "ValueError",
                        msg |-> [kind |-> "below_minus_one", pos |-> i, value |-> obj],
                        unspec_axis |-> unspec_axis]
                  ELSE reshape_scan_keep_first(tup, i + 1,
                                               IF unspec_axis >= 0 THEN unspec_axis ELSE i)
             ELSE reshape_scan_keep_first(tup, i + 1, unspec_axis)

RECURSIVE reshape_scan(_, _, _)
reshape_scan(tup, i, unspec_axis) ==
    IF i >= Len(tup) THEN [err |-> "none", msg |-> NoMsg, unspec_axis |-> unspec_axis]
    ELSE LET obj == tup[i + 1]
         IN  IF obj < 0
             THEN IF obj # -1
                  THEN [err |-> "ValueError",
                        msg |-> [kind |-> "below_minus_one", pos |-> i, value |-> obj],
                        unspec_axis |-> unspec_axis]
                  ELSE IF unspec_axis >= 0
                  THEN [err |-> "ValueError",
                        msg |-> [kind |-> "multiple_minus_one", first |-> unspec_axis,
                                 second |-> i],
                        unspec_axis |-> unspec_axis]
                  ELSE reshape_scan(tup, i + 1, i)
             ELSE reshape_scan(tup, i + 1, unspec_axis)

\* The Reshape descriptor: axis is <<>> for INVALID_AXIS (or the default), else
\* <<unspec_axis>>; shape is the embedded shape, empty on the dynamic path,
\* where the shape is the second operand, built by astensor1d from shape_hdl.
ReshapeOp(unspec_axis, shape, fastpath) ==
    [axis |-> IF unspec_axis >= 0 THEN <<unspec_axis>> ELSE <<>>,
     shape |-> IF fastpath THEN shape ELSE <<>>,
     by |-> IF fastpath THEN "tuple" ELSE "tensor1d"]

_reshape_cpp(inp, args) ==
    LET shape_hdl == _expand_args(args)
        shape_tuple == _make_shape_tuple(shape_hdl)
        scan == reshape_scan(shape_tuple.dims, 0, -1)
    IN  IF scan.err # "none" THEN [err |-> scan.err, msg |-> scan.msg, prims |-> <<>>]
        ELSE LET tv == tuple2vector(shape_tuple)
                 fastpath == tv.ok /\ enable_fastpath(inp)
             IN  [err |-> "none", msg |-> NoMsg,
                  prims |-> <<Prim("Reshape", "tensor",
                                   ReshapeOp(scan.unspec_axis, tv.shp, fastpath))>>]

MaxShapeLen == 3

ShapeLiterals == {-2, -1, 0, 2, 3}

ShapeOperands == [kind : {"tensor", "symvar"}]

ReshapeCalls ==
    {[op |-> "reshape", inp |-> inp, args |-> [form |-> f, dims |-> d, handles |-> h]] :
        inp \in ShapeOperands, f \in {"tuple", "list", "varargs"},
        d \in SeqsUpTo(ShapeLiterals, MaxShapeLen), h \in {{}, {0}}}
    \ {c \in [op : {"reshape"}, inp : ShapeOperands,
               args : [form : {"tuple", "list", "varargs"}, dims : {<<>>},
                       handles : {{0}}]] : TRUE}

InitShape ==
    /\ call \in ReshapeCalls
    /\ ret = Pending
    /\ segments \in SegmentStates
    /\ slots = NullSlots

DoReshape ==
    /\ call.op = "reshape"
    /\ ret = Pending
    /\ ret' = [state |-> "done"] @@ _reshape_cpp(call.inp, call.args)
    /\ UNCHANGED <<call, segments, slots>>

NextShape == DoReshape

SpecShape == InitShape /\ [][NextShape]_vars

(***************************************************************************)
(* Properties of reshape.                                                  *)
(***************************************************************************)
\* The 0-based positions of the entries equal to v.
PositionsOf(dims, v) == {i \in 0..(Len(dims) - 1) : dims[i + 1] = v}

PositionsBelow(dims, v) == {i \in 0..(Len(dims) - 1) : dims[i + 1] < v}

RECURSIVE DecodeItems(_, _)
DecodeItems(items, tensors) ==
    IF items = <<>> THEN <<>>
    ELSE LET it == Head(items)
             nb == IF it[2] THEN 1 ELSE 0
             ne == IF it[3] THEN 1 ELSE 0
             ns == IF it[4] THEN 1 ELSE 0
         IN  <<[axis |-> it[1],
                begin |-> IF it[2] THEN <<tensors[1].v>> ELSE <<>>,
                end |-> IF it[3] THEN <<tensors[nb + 1].v>> ELSE <<>>,
                step |-> IF it[4] THEN <<tensors[nb + ne + 1].v>> ELSE <<>>]>>
             \o DecodeItems(Tail(items), SubSeq(tensors, nb + ne + ns + 1, Len(tensors)))

\* A bound of a slice brought into range on an axis of size n: negative values
\* count from the end, then the value is clipped to lo .. hi.
ClipBound(v, n, lo, hi) ==
    LET w == IF v < 0 THEN v + n ELSE v
    IN  IF w < lo THEN lo ELSE IF w > hi THEN hi ELSE w

\* The 1-based positions, in order, selected on an axis of size n.
SlicePositions(b, e, s, n) ==
    LET step == IF s = <<>> THEN 1 ELSE s[1]
    IN  IF step > 0
        THEN LET start == IF b = <<>> THEN 0 ELSE ClipBound(b[1], n, 0, n)
                 stop == IF e = <<>> THEN n ELSE ClipBound(e[1], n, 0, n)
                 len == IF stop > start THEN ((stop - start - 1) \div step) + 1 ELSE 0
             IN  [k \in 1..len |-> start + (k - 1) * step + 1]
        ELSE LET start == IF b = <<>> THEN n - 1 ELSE ClipBound(b[1], n, -1, n - 1)
                 stop == IF e = <<>> THEN -1 ELSE ClipBound(e[1], n, -1, n - 1)
                 len == IF stop < start THEN ((start - stop - 1) \div (-step)) + 1 ELSE 0
             IN  [k \in 1..len |-> start + (k - 1) * step + 1]

\* The positions selected on one axis (0-based axis number) of size n: all of
\* them when no descriptor names the axis.
AxisPositions(decoded, axis, n) ==
    LET named == {i \in 1..Len(decoded) : decoded[i].axis = axis}
    IN  IF named = {} THEN [k \in 1..n |-> k]
        ELSE LET d == decoded[CHOOSE i \in named : TRUE]
             IN  SlicePositions(d.begin, d.end, d.step, n)

NoValue == [shape |-> <<>>, rows |-> <<>>]

\* Subtensor(items) applied to T with the operands tensors.
SubtensorValue(T, items, tensors) ==
    LET decoded == DecodeItems(items, tensors)
        rs == AxisPositions(decoded, 0, T.shape[1])
        cs == AxisPositions(decoded, 1, T.shape[2])
    IN  [shape |-> <<Len(rs), Len(cs)>>,
         rows |-> [r \in 1..Len(rs) |-> [c \in 1..Len(cs) |-> T.rows[rs[r]][cs[c]]]]]

\* Broadcast(shape) applied to a value of rank 2.
BroadcastValue(val, shape) ==
    [shape |-> shape,
     rows |-> [r \in 1..shape[1] |->
                  [c \in 1..shape[2] |->
                      val.rows[IF val.shape[1] = 1 THEN 1 ELSE r]
                              [IF val.shape[2] = 1 THEN 1 ELSE c]]]]

\* SetSubtensor(items) applied to T and a value of the region's shape.
SetSubtensorValue(T, val, items, tensors) ==
    LET decoded == DecodeItems(items, tensors)
        rs == AxisPositions(decoded, 0, T.shape[1])
        cs == AxisPositions(decoded, 1, T.shape[2])
    IN  [shape |-> T.shape,
         rows |-> [r \in 1..T.shape[1] |->
                      [c \in 1..T.shape[2] |->
                          IF (\E i \in 1..Len(rs) : rs[i] = r) /\ (\E j \in 1..Len(cs) : cs[j] = c)
                          THEN val.rows[CHOOSE i \in 1..Len(rs) : rs[i] = r]
                                       [CHOOSE j \in 1..Len(cs) : cs[j] = c]
                          ELSE T.rows[r][c]]]]

\* The output of get: r is what _getitem_cpp did, the value is that of the
\* primitive it returns the output of.
GatherOutput(T, r) ==
    [err |-> r.err, prims |-> r.prims,
     value |-> IF r.err = "none" /\ r.out = "Subtensor"
               THEN SubtensorValue(T, r.prims[Len(r.prims)].arg.items,
                                   r.prims[Len(r.prims)].arg.tensors)
               ELSE NoValue]

\* The region gathered by set before the value is checked against it: the output
\* of its Subtensor application, up being the plan of _unpack_indexes.
GatheredRegion(T, up) ==
    IF up.err = "none" /\ up.use_subtensor
    THEN SubtensorValue(T, up.items, up.tensors) ELSE NoValue

\* The output of set: r is what _setitem_cpp did, the value is that of the
\* SetSubtensor application on T and the broadcast value.
SetOutput(T, val, r) ==
    [err |-> r.err, prims |-> r.prims,
     value |-> IF r.err = "none" /\ r.out = "SetSubtensor"
               THEN SetSubtensorValue(T,
                        BroadcastValue(val, r.prims[Len(r.prims) - 1].arg.shape),
                        r.prims[Len(r.prims)].arg.items,
                        r.prims[Len(r.prims)].arg.tensors)
               ELSE NoValue]

RoundTripShape == <<4, 4>>

\* The element at (r, c) of the tensor named kind.
Element(kind, r, c) ==
    IF kind = "iota" THEN RoundTripShape[2] * (r - 1) + (c - 1)
    ELSE IF kind = "zero" THEN 0
    ELSE IF kind = "checker" THEN (r + c) % 2
    ELSE r

TensorOfElements(kind) ==
    [shape |-> RoundTripShape,
     rows |-> [r \in 1..RoundTripShape[1] |->
                  [c \in 1..RoundTripShape[2] |-> Element(kind, r, c)]]]

RoundTripTensors == {TensorOfElements(kind) : kind \in {"iota", "zero", "checker", "row"}}

SliceStarts == {<<>>, <<0>>, <<1>>, <<3>>, <<-1>>}

SliceStops == {<<>>, <<0>>, <<2>>, <<4>>, <<-1>>}

SliceSteps == {<<>>, <<1>>, <<2>>, <<-1>>}

RoundTripSlices == {SliceOf(a, b, c) : a \in SliceStarts, b \in SliceStops, c \in SliceSteps}

\* One bare slice, or a tuple of at most as many slices as T has axes.
RoundTripIndexes ==
    [tuple : {FALSE}, items : {<<e>> : e \in RoundTripSlices}]
    \cup [tuple : {TRUE}, items : SeqsUpTo(RoundTripSlices, Len(RoundTripShape)) \ {<<>>}]

InitRoundTrip ==
    /\ call \in [op : {"roundtrip"}, T : RoundTripTensors, idx : RoundTripIndexes]
    /\ ret = Pending
    /\ segments = NoSegments
    /\ slots = NullSlots

RoundTripGet ==
    /\ call.op = "roundtrip"
    /\ ret = Pending
    /\ \E r \in {_getitem_cpp(TensorHandle(call.T.shape), call.idx, FALSE)} :
           /\ ret' = [state |-> "got", get |-> GatherOutput(call.T, r)]
           /\ slots' = slots_after_get(slots, r)
    /\ UNCHANGED <<call, segments>>

\* set(T, idx, get(T, idx)): not called when get raised.
RoundTripSet ==
    /\ call.op = "roundtrip"
    /\ ret.state = "got"
    /\ ret.get.err = "none"
    /\ \E up \in {_unpack_indexes(TensorHandle(call.T.shape), call.idx, FALSE)} :
         \E tmp_result \in {GatheredRegion(call.T, up)} :
           \E r \in {_setitem_cpp(TensorHandle(call.T.shape), call.idx,
                                  ret.get.value.shape, tmp_result.shape, FALSE)} :
              /\ ret' = [state |-> "done", get |-> ret.get,
                         set |-> SetOutput(call.T, ret.get.value, r)]
              /\ slots' = slots_after_set(slots, r)
    /\ UNCHANGED <<call, segments>>

NextRoundTrip == RoundTripGet \/ RoundTripSet

SpecRoundTrip == InitRoundTrip /\ [][NextRoundTrip]_vars

(***************************************************************************)
(* Properties of the round trip.                                           *)
(***************************************************************************)
\* C5: for a tensor T of shape (4,4) and every index s built from slices, get
\* succeeds, and set(T, s, get(T, s)) succeeds and returns a tensor with the
\* shape and the elements of T.
C5_RoundTrip ==
    call.op = "roundtrip"
        => /\ ret.state \in {"got", "done"} => ret.get.err = "none"
           /\ ret.state = "done"
                  => /\ ret.set.err = "none"
                     /\ ret.set.value.shape = call.T.shape
                     /\ ret.set.value.rows = call.T.rows

\* T[1::2, :2] of the tensor with elements 0 .. 15 was read as ((4,5),(12,13))
\* and written back, leaving T as it was.
C5_Witness ==
    /\ ret.state = "done"
    /\ call.op = "roundtrip"
    /\ call.T = TensorOfElements("iota")
    /\ call.idx = [tuple |-> TRUE,
                   items |-> <<SliceOf(<<1>>, <<>>, <<2>>), SliceOf(<<>>, <<2>>, <<>>)>>]
    /\ ret.get.value = [shape |-> <<2, 2>>, rows |-> <<<<4, 5>>, <<12, 13>>>>]
    /\ ret.set.err = "none"
    /\ ret.set.prims[Len(ret.set.prims)].op = "SetSubtensor"
    /\ ret.set.value = call.T


(***************************************************************************)
(* Properties of device resolution and of the wrapping of arguments.       *)
(***************************************************************************)
\* The devices of the tensor and symbolic operands, in order.
DevicesOf(operands) ==
    LET placed == SelectSeq(operands, LAMBDA o : o.k \in {"tensor", "symvar"})
    IN  [i \in 1..Len(placed) |-> placed[i].device]

PromoteOutcome(wrap) == dtype_promotion(ArgVector(call.operands, wrap))

DeviceOutcome(wrap) == get_device(ArgVector(call.operands, wrap))

\* C12: promote_dtype and resolve_device give the same outcome for the operands
\* as a bare argument list and for one tuple or one list wrapping them.
C12_WrappingIrrelevant ==
    ret.state = "done"
        => /\ call.op = "dtype_promotion"
                  => [err |-> ret.err, dtype |-> ret.dtype] = PromoteOutcome("bare")
           /\ call.op = "get_device"
                  => [err |-> ret.err, msg |-> ret.msg, device |-> ret.device]
                         = DeviceOutcome("bare")


(***************************************************************************)
(* Properties of the result of set and of failed calls.                    *)
(***************************************************************************)
ResultReshapes ==
    {i \in 1..Len(ret.prims) : ret.prims[i].op = "Reshape" /\ ret.prims[i].on = "result"}

ValidationFailures ==
    {"multiple_ellipsis", "ellipsis_unknown_ndim", "too_many_indices", "newaxis",
     "bool_mismatch"}

\* C14: a get or set that fails during index validation has applied no
\* primitive before the failure.
C14_ValidationBeforePrimitives ==
    (IndexCallDone /\ ret.err = "IndexError" /\ ret.msg.kind \in ValidationFailures)
        => ret.prims = <<>>


(***************************************************************************)
(* Properties of the normalisation of the index.                           *)
(***************************************************************************)
\* Axes counted for the entries of a tuple: a boolean mask its rank, any other
\* entry that is not the ellipsis one.
RECURSIVE AxesCountedBy(_, _)
AxesCountedBy(items, n) ==
    IF n = 0 THEN 0
    ELSE AxesCountedBy(items, n - 1)
         + (IF items[n].k = "ellipsis" THEN 0 ELSE AxesOf(items[n]))

AxesCounted(items) == AxesCountedBy(items, Len(items))

\* The calls whose index holds exactly one ellipsis, on a tensor of known rank,
\* with entries that consume no more axes than the tensor has.
OneEllipsisFits ==
    /\ IndexCallDone
    /\ call.inp.known
    /\ EllipsisCount(call.idx.items) = 1
    /\ AxesCounted(call.idx.items) <= Len(call.inp.shape)

\* C17: with exactly one ellipsis, a tensor of known rank r and entries that
\* consume c <= r axes, the expansion of the ellipsis succeeds, puts r - c full
\* slices in the place of the marker, keeps the other entries and their order,
\* and gives a tuple without ellipsis that consumes r axes; a call that
\* succeeds is planned on that tuple.
C17_EllipsisExpansion ==
    OneEllipsisFits
        => LET items == call.idx.items
               fill == Len(call.inp.shape) - AxesCounted(items)
               pos == CHOOSE i \in 1..Len(items) : items[i].k = "ellipsis"
               re == _remove_ellipsis(call.inp, items)
               out == re.tuple_val
           IN  /\ re.err = "none"
               /\ Len(out) = Len(items) - 1 + fill
               /\ \A i \in 1..(pos - 1) : out[i] = items[i]
               /\ \A i \in pos..(pos + fill - 1) : out[i] = FullSlice
               /\ \A i \in (pos + 1)..Len(items) : out[i + fill - 1] = items[i]
               /\ EllipsisCount(out) = 0
               /\ AxesCounted(out) = Len(call.inp.shape)
               /\ ret.err = "IndexError"
                      => ret.msg.kind \notin {"multiple_ellipsis", "ellipsis_unknown_ndim",
                                              "too_many_indices"}
               /\ (ret.err = "none" /\ ret.path = "normalizer") => ret.plan.tuple_val = out

\* (0, ..., mask of shape (2,3)) on a tensor of shape (2,2,2,3): the entries
\* consume three axes and the ellipsis became one full slice.
C17_Witness ==
    /\ ret.state = "done"
    /\ call.op = "getitem"
    /\ call.inp = TensorHandle(<<2, 2, 2, 3>>)
    /\ call.idx.items = <<IntIdx(0), Ellipsis, BoolIdx(<<2, 3>>)>>
    /\ ret.err = "none"
    /\ ret.plan.tuple_val = <<IntIdx(0), FullSlice, BoolIdx(<<2, 3>>)>>


TensorReshapes ==
    {i \in 1..Len(ret.prims) : ret.prims[i].op = "Reshape" /\ ret.prims[i].on = "tensor"}

\* C18: with symbolic shapes off, the expansion of a boolean mask of rank > 1
\* changes the shape the plan sees and applies no reshape to the tensor; a
\* reshape of the tensor is applied only with symbolic shapes on.
C18_StaticExpansionWithoutReshape ==
    IndexCallDone => (TensorReshapes # {} => call.is_sym)

\* The entries that keep the basic path as the claim words them: slices and bare
\* scalars; every tensor is tensor-valued.
BareBasicEntry(e) == e.k \in {"slice", "int"}

\* The entries that keep the basic path: slices, bare scalars, and tensors of
\* shape ().
BasicEntry(e) == e.k \in {"slice", "int"} \/ (e.k = "itensor" /\ e.shape = <<>>)

IndexPlanned == IndexCallDone /\ ret.err = "none" /\ ret.path = "normalizer"

GetLowering ==
    call.op = "getitem"
        => (AppliedOps \cap {"Subtensor", "IndexingMultiAxisVec"})
               = {IF ret.plan.use_subtensor THEN "Subtensor" ELSE "IndexingMultiAxisVec"}

\* C19 as stated: the basic path is used iff every entry of the normalized index
\* is a full slice, a slice or a bare scalar, never with a tensor-valued entry;
\* get then applies the basic select when it is used and the multi-axis gather
\* when it is not.
C19_BasicPathAsStated ==
    IndexPlanned
        => /\ ret.plan.use_subtensor
                  = (\A i \in 1..Len(ret.plan.tuple_val) : BareBasicEntry(ret.plan.tuple_val[i]))
           /\ GetLowering

\* C19: the basic path is used iff every entry of the normalized index is a full
\* slice, a slice, a bare scalar or a tensor of shape (); get then applies the
\* basic select when it is used and the multi-axis gather when it is not.
C19_BasicPath ==
    IndexPlanned
        => /\ ret.plan.use_subtensor
                  = (\A i \in 1..Len(ret.plan.tuple_val) : BasicEntry(ret.plan.tuple_val[i]))
           /\ GetLowering

\* (t, :) on a tensor of shape (2,3), t an index tensor of shape (): the basic
\* select is applied.
C19_Witness ==
    /\ ret.state = "done"
    /\ call.op = "getitem"
    /\ call.inp = TensorHandle(<<2, 3>>)
    /\ call.idx.items = <<IntTensorIdx(<<>>), FullSlice>>
    /\ ret.err = "none"
    /\ ret.plan.use_subtensor
    /\ "Subtensor" \in AppliedOps

AnyMaskAt(t, p) == t[p].k = "bool"

\* C20: a single boolean index whose shape is not the tensor's goes to the
\* normalizer, and the normalizer rejects with IndexError every boolean index,
\* of rank 1 or more, whose shape differs from the sizes of the axes it masks.
C20_MismatchedMaskRejected ==
    /\ (ret.state = "done" /\ call.op = "getitem" /\ call.inp.known
        /\ Len(call.idx.items) = 1 /\ call.idx.items[1].k = "bool"
        /\ call.idx.items[1].shape # call.inp.shape)
           => ret.path = "normalizer"
    /\ MaskValidationReached
           => LET t == ExpandedIndex
              IN  (\E p \in 1..Len(t) :
                      AnyMaskAt(t, p) /\ MaskBadAxes(t, p, call.inp.shape) # {})
                      => ret.err = "IndexError"


(***************************************************************************)
(* _broadcast_cpp, statement by statement.                                 *)
(*                                                                         *)
(* An entry of the shape argument is <<>> for None and <<n>> for the       *)
(* integer n.  The operand is [kind, known, shape]: known is FALSE when    *)
(* _tuple_shape is None.  _broadcast_cpp reads enable_fastpath once for    *)
(* every None entry, once after the loop when an entry was None, and once  *)
(* before the descriptor is built; between these reads it calls into       *)
(* Python (getattr, astensor1d, numpy), where a trace scope can be entered  *)
(* or left.  While the call runs, ret holds its locals and its position.   *)
(***************************************************************************)
NoneEntry == <<>>

IntEntry(n) == <<n>>

\* An entry given as a Tensor holding n (one whose numpy() can be read).
TensorEntry(n) == <<n, 0>>

BroadcastFailure(err, msg) ==
    [state |-> "done", err |-> err, msg |-> msg, prims |-> <<>>, pyerr |-> FALSE]

\* The locals after _expand_args and PySequence_List.
broadcast_enter(args) ==
    [state |-> "running", pc |-> "scan", i |-> 0, shape_hdl |-> _expand_args(args),
     lis |-> _expand_args(args).dims, new_shape |-> <<>>, auto_infer |-> FALSE]

leading_dim(inp_shape, right) == inp_shape[1]

\* inp_shape[inp_shape.size() - right]: the dimension aligned from the trailing
\* axis.
aligned_dim(inp_shape, right) == inp_shape[Len(inp_shape) - right + 1]

\* One iteration of the loop over lis; fast is what enable_fastpath(inp_hdl)
\* returns if the iteration reads it.
broadcast_scan(st, inp, fast) ==
    LET i == st.i
        e == st.lis[i + 1]
        right == Len(st.lis) - i
    IN  IF e = NoneEntry
        THEN IF ~inp.known
             THEN BroadcastFailure("IndexError", [kind |-> "none_with_unknown_shape"])
             ELSE IF Len(inp.shape) >= right
             THEN LET d == IntEntry(aligned_dim(inp.shape, right))
                  IN  [st EXCEPT !.i = i + 1, !.auto_infer = TRUE,
                                 !.lis[i + 1] = IF fast THEN d ELSE @,
                                 !.new_shape = Append(@, d)]
             ELSE BroadcastFailure("ValueError", [kind |-> "invalid_broadcast_shape"])
        ELSE IF Len(e) = 1 /\ e[1] < 0
        THEN BroadcastFailure("ValueError",
                              [kind |-> "negative_entry", pos |-> i, value |-> e[1]])
        ELSE [st EXCEPT !.i = i + 1, !.new_shape = Append(@, e)]

\* After the loop: shape_hdl.  With a None entry met it is the tuple of lis
\* when enable_fastpath holds and astensor1d(new_shape) otherwise; with none
\* met it stays the argument.
broadcast_infer(st, fast) ==
    [state |-> "running", pc |-> "lower",
     shape_hdl |-> IF st.auto_infer
                   THEN IF fast THEN [form |-> "tuple", dims |-> st.lis]
                        ELSE [form |-> "tensor1d", dims |-> st.new_shape]
                   ELSE st.shape_hdl]

\* solve_one of _make_shape_tuple: PyLong_AsLong of None is -1, with the Python
\* error indicator set.
solve_one(val) == IF val = NoneEntry THEN -1 ELSE val[1]

\* The rest of _broadcast_cpp: _make_shape_tuple, tuple2vector, the last read of
\* enable_fastpath, and the Broadcast that is applied: with the shape embedded,
\* or with astensor1d(shape_hdl) as its second operand.
broadcast_lower(st, fast) ==
    LET dims == st.shape_hdl.dims
        shape_tuple == [form |-> "tuple", dims |-> [j \in 1..Len(dims) |-> solve_one(dims[j])]]
        tv == tuple2vector(shape_tuple)
        fastpath == tv.ok /\ fast
    IN  [state |-> "done", err |-> "none", msg |-> NoMsg,
         prims |-> <<Prim("Broadcast", "tensor",
                          [shape |-> IF fastpath THEN tv.shp ELSE <<>>,
                           by |-> IF fastpath THEN "tuple" ELSE "tensor1d",
                           operand |-> IF fastpath THEN <<>> ELSE dims])>>,
         pyerr |-> \E j \in 1..Len(dims) : dims[j] = NoneEntry]

MaxBroadcastLen == 3

BroadcastEntries == {NoneEntry, IntEntry(-1), IntEntry(2), IntEntry(3), TensorEntry(3)}

BroadcastOperands ==
    [kind : {"tensor", "symvar"}, known : {TRUE}, shape : {<<3>>, <<2, 3>>}]
    \cup [kind : {"tensor", "symvar"}, known : {FALSE}, shape : {<<>>}]

BroadcastCalls ==
    [op : {"broadcast"}, inp : BroadcastOperands,
     args : [form : {"tuple", "list", "varargs"},
             dims : SeqsUpTo(BroadcastEntries, MaxBroadcastLen)]]

\* Reshape calls served while trace scopes come and go.
TracedReshapeCalls ==
    [op : {"reshape"}, inp : ShapeOperands,
     args : [form : {"tuple"}, dims : {<<2, 3>>, <<-1, 3>>, <<3, -1, -1>>},
             handles : {{}}]]

InitFastpath ==
    /\ call \in BroadcastCalls \cup TracedReshapeCalls
    /\ ret = Pending
    /\ segments \in SegmentStates
    /\ slots = NullSlots

BroadcastEnter ==
    /\ call.op = "broadcast"
    /\ ret = Pending
    /\ ret' = broadcast_enter(call.args)
    /\ UNCHANGED <<call, segments, slots>>

BroadcastScan ==
    /\ call.op = "broadcast"
    /\ ret.state = "running"
    /\ ret.pc = "scan"
    /\ ret.i < Len(ret.lis)
    /\ ret' = broadcast_scan(ret, call.inp, enable_fastpath(call.inp))
    /\ UNCHANGED <<call, segments, slots>>

BroadcastInfer ==
    /\ call.op = "broadcast"
    /\ ret.state = "running"
    /\ ret.pc = "scan"
    /\ ret.i = Len(ret.lis)
    /\ ret' = broadcast_infer(ret, enable_fastpath(call.inp))
    /\ UNCHANGED <<call, segments, slots>>

BroadcastLower ==
    /\ call.op = "broadcast"
    /\ ret.state = "running"
    /\ ret.pc = "lower"
    /\ ret' = broadcast_lower(ret, enable_fastpath(call.inp))
    /\ UNCHANGED <<call, segments, slots>>

\* A trace or module-trace scope is entered or left by the Python code that
\* runs while the call is not done.
TraceScopeChange ==
    /\ ret.state # "done"
    /\ \E seg \in {"trace", "module_trace"} : segments' = [segments EXCEPT ![seg] = ~@]
    /\ UNCHANGED <<call, ret, slots>>

NextFastpath ==
    \/ BroadcastEnter
    \/ BroadcastScan
    \/ BroadcastInfer
    \/ BroadcastLower
    \/ DoReshape
    \/ TraceScopeChange

SpecFastpath == InitFastpath /\ [][NextFastpath]_vars

(***************************************************************************)
(* Properties of the fast-path flag.                                       *)
(***************************************************************************)
\* The loop of _broadcast_cpp run to its end with one value of the flag.
RECURSIVE ScanWith(_, _, _)
ScanWith(st, inp, fast) ==
    IF st.state = "done" \/ st.i = Len(st.lis) THEN st
    ELSE ScanWith(broadcast_scan(st, inp, fast), inp, fast)

\* What a broadcast does when every read of the flag returns fast.
BroadcastWith(inp, args, fast) ==
    LET st == ScanWith(broadcast_enter(args), inp, fast)
    IN  IF st.state = "done" THEN st
        ELSE broadcast_lower(broadcast_infer(st, fast), fast)

\* C15: a broadcast or reshape call decides its lowering from one value of the
\* fast-path flag: whatever trace scopes are entered or left while it runs, a
\* finished broadcast has done what it does when every read of the flag returns
\* one and the same value, so no None is left unresolved in the shape handed to
\* the primitive; a finished reshape has the shape wholly in its descriptor or
\* wholly in its shape operand.
C15_SingleFlagValue ==
    /\ (ret.state = "done" /\ call.op = "broadcast")
           => /\ \E f \in BOOLEAN :
                     ret = BroadcastWith(call.inp, call.args, f /\ call.inp.kind = "tensor")
              /\ ret.err = "none"
                     => /\ ~ret.pyerr
                        /\ \A j \in 1..Len(ret.prims[1].arg.operand) :
                               ret.prims[1].arg.operand[j] # NoneEntry
    /\ (ret.state = "done" /\ call.op = "reshape" /\ ret.err = "none")
           => \/ ret.prims[1].arg.by = "tuple" /\ ret.prims[1].arg.shape = call.args.dims
              \/ ret.prims[1].arg.by = "tensor1d" /\ ret.prims[1].arg.shape = <<>>


(***************************************************************************)
(* _getitem_cpp and _setitem_cpp, statement by statement, for calls in     *)
(* flight together.                                                        *)
(*                                                                         *)
(* call[t] is the call of caller t and ret[t] its locals and position.     *)
(* Each function assigns its descriptor to a function-local static         *)
(* pointer and then copies that pointer into the operator it applies       *)
(* (py::cast(op), py::cast(set_op)): the assignment and the copy are       *)
(* separate accesses to the slot that all calls share.                     *)
(***************************************************************************)
Callers == {1, 2}

FlightTensor == TensorHandle(<<2, 3>>)

FlightGetCalls ==
    {[op |-> "getitem", inp |-> FlightTensor, is_sym |-> FALSE,
      idx |-> [tuple |-> TRUE, items |-> items]] :
         items \in {<<IntIdx(0), FullSlice>>, <<IntTensorIdx(<<2>>)>>,
                    <<FullSlice, SliceOf(<<0>>, <<>>, <<1>>)>>, <<Ellipsis, Ellipsis>>}}

FlightSetCalls ==
    {[op |-> "setitem", inp |-> FlightTensor, is_sym |-> FALSE,
      idx |-> [tuple |-> TRUE, items |-> <<SliceOf(<<0>>, <<>>, <<1>>)>>],
      val |-> v, region |-> <<2, 3>>] : v \in {<<3>>, <<5>>}}
    \cup {[op |-> "setitem", inp |-> FlightTensor, is_sym |-> FALSE,
           idx |-> [tuple |-> TRUE, items |-> <<IntTensorIdx(<<2>>)>>],
           val |-> <<3>>, region |-> <<2, 3>>],
          [op |-> "setitem", inp |-> FlightTensor, is_sym |-> FALSE,
           idx |-> [tuple |-> TRUE, items |-> <<NoneIdx>>],
           val |-> <<3>>, region |-> <<2, 3>>]}

InitFlight ==
    /\ call \in [Callers -> FlightGetCalls \cup FlightSetCalls]
    /\ ret = [t \in Callers |-> Pending]
    /\ segments = NoSegments
    /\ slots = NullSlots

FlightDone(r, applied) ==
    [state |-> "done", err |-> r.err, msg |-> r.msg, applied |-> applied]

\* _getitem_cpp up to the assignment of op: the shortcut and a failed unpacking
\* return before it.
GetBuild(t) ==
    /\ call[t].op = "getitem"
    /\ ret[t] = Pending
    /\ \E r \in {_getitem_cpp(call[t].inp, call[t].idx, call[t].is_sym)} :
          IF r.path = "normalizer" /\ r.err = "none"
          THEN /\ slots' = slots_after_get(slots, r)
               /\ ret' = [ret EXCEPT ![t] = [state |-> "running", pc |-> "apply", r |-> r]]
          ELSE /\ ret' = [ret EXCEPT ![t] = FlightDone(r, <<>>)]
               /\ UNCHANGED slots
    /\ UNCHANGED <<call, segments>>

\* py::cast(op) and py_apply: the descriptor applied is the one in the slot.
GetApply(t) ==
    /\ call[t].op = "getitem"
    /\ ret[t].state = "running"
    /\ ret[t].pc = "apply"
    /\ ret' = [ret EXCEPT ![t] = FlightDone(ret[t].r, slots.getitem_op)]
    /\ UNCHANGED <<call, segments, slots>>

\* _setitem_cpp up to the assignment of op.
SetBuildGather(t) ==
    /\ call[t].op = "setitem"
    /\ ret[t] = Pending
    /\ \E r \in {_setitem_cpp(call[t].inp, call[t].idx, call[t].val, call[t].region,
                              call[t].is_sym)} :
          IF r.plan.err = "none"
          THEN /\ slots' = [slots EXCEPT !.setitem_op =
                               <<OpDesc(gather_op(r.plan.use_subtensor), r.plan.items)>>]
               /\ ret' = [ret EXCEPT ![t] = [state |-> "running", pc |-> "gather", r |-> r]]
          ELSE /\ ret' = [ret EXCEPT ![t] = FlightDone(r, <<>>)]
               /\ UNCHANGED slots
    /\ UNCHANGED <<call, segments>>

\* py::cast(op), py_apply of the gather, and the broadcast check.
SetApplyGather(t) ==
    /\ call[t].op = "setitem"
    /\ ret[t].state = "running"
    /\ ret[t].pc = "gather"
    /\ ret' = [ret EXCEPT ![t] =
                  IF ret[t].r.err # "none"
                  THEN FlightDone(ret[t].r, slots.setitem_op)
                  ELSE [state |-> "running", pc |-> "build_set", r |-> ret[t].r,
                        applied |-> slots.setitem_op]]
    /\ UNCHANGED <<call, segments, slots>>

\* The assignment of set_op.
SetBuildSet(t) ==
    /\ call[t].op = "setitem"
    /\ ret[t].state = "running"
    /\ ret[t].pc = "build_set"
    /\ slots' = [slots EXCEPT !.setitem_set_op =
                    <<OpDesc(set_op(ret[t].r.plan.use_subtensor), ret[t].r.plan.items)>>]
    /\ ret' = [ret EXCEPT ![t].pc = "scatter"]
    /\ UNCHANGED <<call, segments>>

\* py::cast(set_op) and py_apply of the set.
SetApplySet(t) ==
    /\ call[t].op = "setitem"
    /\ ret[t].state = "running"
    /\ ret[t].pc = "scatter"
    /\ ret' = [ret EXCEPT ![t] = FlightDone(ret[t].r, ret[t].applied \o slots.setitem_set_op)]
    /\ UNCHANGED <<call, segments, slots>>

NextFlight ==
    \E t \in Callers :
        \/ GetBuild(t)
        \/ GetApply(t)
        \/ SetBuildGather(t)
        \/ SetApplyGather(t)
        \/ SetBuildSet(t)
        \/ SetApplySet(t)

SpecFlight == InitFlight /\ [][NextFlight]_vars

(***************************************************************************)
(* Properties of calls in flight together.                                 *)
(***************************************************************************)
\* The descriptors a call applies when it runs alone, from its own index plan.
OwnDescriptors(c) ==
    IF c.op = "getitem"
    THEN LET r == _getitem_cpp(c.inp, c.idx, c.is_sym)
         IN  IF r.path = "normalizer" /\ r.err = "none"
             THEN <<OpDesc(gather_op(r.plan.use_subtensor), r.plan.items)>>
             ELSE <<>>
    ELSE LET r == _setitem_cpp(c.inp, c.idx, c.val, c.region, c.is_sym)
         IN  IF r.plan.err # "none" THEN <<>>
             ELSE <<OpDesc(gather_op(r.plan.use_subtensor), r.plan.items)>>
                  \o (IF r.err = "none"
                      THEN <<OpDesc(set_op(r.plan.use_subtensor), r.plan.items)>>
                      ELSE <<>>)

\* C16: under every interleaving of get and set calls, the descriptors a call
\* has applied (kind and item list) are the ones built from its own index plan.
C16_OwnDescriptorApplied ==
    \A t \in Callers :
        ret[t].state = "done" => ret[t].applied = OwnDescriptors(call[t])


(***************************************************************************)
(* Properties of the failure of dtype promotion.                           *)
(***************************************************************************)
NoDtypeAvailable(operands) ==
    GroupCategory(TensorGroup(operands)) = 0 /\ GroupCategory(ScalarGroup(operands)) = 0

InitLower ==
    /\ call \in BroadcastCalls \cup ReshapeCalls
    /\ ret = Pending
    /\ segments \in SegmentStates
    /\ slots = NullSlots

NextLower ==
    \/ BroadcastEnter
    \/ BroadcastScan
    \/ BroadcastInfer
    \/ BroadcastLower
    \/ DoReshape

SpecLower == InitLower /\ [][NextLower]_vars

(***************************************************************************)
(* Properties of the lowering of reshape and broadcast.                    *)
(***************************************************************************)
LoweringDone ==
    ret.state = "done" /\ call.op \in {"reshape", "broadcast"} /\ ret.err = "none"

Eligible == call.inp.kind = "tensor" /\ ~segments.trace /\ ~segments.module_trace

\* No entry of the shape argument is given as a Tensor.
NoHandleEntry ==
    IF call.op = "reshape" THEN call.args.handles = {}
    ELSE \A j \in 1..Len(call.args.dims) : Len(call.args.dims[j]) <= 1

StaticPath(a) == a.by = "tuple" /\ Len(a.shape) = Len(call.args.dims)

DynamicPath(a) == a.by = "tensor1d" /\ a.shape = <<>>

\* C22 as stated: the static path is taken iff every entry of the shape is a
\* literal (a None of broadcast counted with them) and the operand is eligible
\* for the fast path; every other call, one with an entry given as a tensor
\* included, takes the dynamic path.
C22_StaticPathAsStated ==
    LoweringDone
        => LET a == ret.prims[1].arg
           IN  IF NoHandleEntry /\ Eligible THEN StaticPath(a) ELSE DynamicPath(a)

\* C22: the static path is taken iff the operand is eligible for the fast path,
\* the entries given as tensors having been read and embedded like literals;
\* every other call takes the dynamic path, with an empty embedded shape and,
\* for broadcast, the shape as second operand.
C22_StaticPath ==
    LoweringDone
        => LET a == ret.prims[1].arg
           IN  IF Eligible
               THEN /\ StaticPath(a)
                    /\ call.op = "reshape" => a.shape = call.args.dims
                    /\ call.op = "broadcast" => a.operand = <<>>
               ELSE /\ DynamicPath(a)
                    /\ call.op = "broadcast" => Len(a.operand) = Len(call.args.dims)

\* reshape to (2, 3) with the 2 given as a Tensor, on a concrete tensor outside
\* every trace scope: the shape (2, 3) is embedded.
C22_Witness ==
    /\ ret.state = "done"
    /\ call.op = "reshape"
    /\ call.args.dims = <<2, 3>>
    /\ call.args.handles = {0}
    /\ call.inp.kind = "tensor"
    /\ segments = NoSegments
    /\ ret.err = "none"
    /\ ret.prims[1].arg = [axis |-> <<>>, shape |-> <<2, 3>>, by |-> "tuple"]


\* The 0-based positions of the None entries that reach beyond the operand's
\* leading axis.
UnalignedNones(dims, r) ==
    {i \in 0..(Len(dims) - 1) : dims[i + 1] = NoneEntry /\ Len(dims) - i > r}

\* The shape a broadcast asks for: a None at 0-based position i stands for the
\* operand's dimension at position r - (n - i), every other entry for its value.
RequestedShape(dims, shape) ==
    [j \in 1..Len(dims) |->
        IF dims[j] = NoneEntry THEN shape[Len(shape) - (Len(dims) - (j - 1)) + 1]
        ELSE dims[j][1]]

\* The integers handed to the primitive: the embedded shape on the static
\* path, the contents of the shape tensor on the dynamic path.
HandedShape(a) ==
    IF a.by = "tuple" THEN a.shape ELSE [j \in 1..Len(a.operand) |-> solve_one(a.operand[j])]

\* C23: on an operand of known rank, the shape embedded on the static path and
\* the contents of the shape tensor of the dynamic path are the same sequence:
\* every None replaced by the operand's dimension aligned from the trailing
\* axis, every other entry kept; a None that reaches beyond the operand's rank
\* makes the call fail with ValueError on both paths.
C23_BroadcastPathsAgree ==
    (ret.state = "done" /\ call.op = "broadcast" /\ call.inp.known)
        => LET dims == call.args.dims
           IN  /\ UnalignedNones(dims, Len(call.inp.shape)) # {}
                      => (ret.err = "ValueError" /\ ret.prims = <<>>)
               /\ ret.err = "none"
                      => /\ HandedShape(ret.prims[1].arg)
                                = RequestedShape(dims, call.inp.shape)
                         /\ \A j \in 1..Len(ret.prims[1].arg.operand) :
                                ret.prims[1].arg.operand[j] # NoneEntry

\* (None, 3) on a symbolic operand of shape (2, 3): the shape tensor holds
\* (2, 3).
C23_Witness ==
    /\ ret.state = "done"
    /\ call.op = "broadcast"
    /\ call.inp = [kind |-> "symvar", known |-> TRUE, shape |-> <<2, 3>>]
    /\ call.args.dims = <<NoneEntry, IntEntry(3)>>
    /\ ret.err = "none"
    /\ ret.prims[1].arg.by = "tensor1d"
    /\ ret.prims[1].arg.operand = <<IntEntry(2), IntEntry(3)>>


(***************************************************************************)
(* The descriptors and operands of a plan.                                 *)
(***************************************************************************)

IsFullSlice(e) == is_slice(e) /\ e.start = <<>> /\ e.stop = <<>> /\ e.step = <<>>

\* The 1-based positions of the normalized tuple that are not a full slice.
DescribedPositions ==
    {p \in 1..Len(ret.plan.tuple_val) : ~IsFullSlice(ret.plan.tuple_val[p])}

TrueFlags(item) == Cardinality({j \in 2..5 : item[j]})

\* The number of true flags in the first n descriptors.
RECURSIVE FlagsUpTo(_)
FlagsUpTo(n) == IF n = 0 THEN 0 ELSE FlagsUpTo(n - 1) + TrueFlags(ret.plan.items[n])

\* The parts of a slice that are given, in the order start, stop, step.
GivenParts(e) ==
    (IF e.start = <<>> THEN <<>> ELSE <<e.start>>)
        \o (IF e.stop = <<>> THEN <<>> ELSE <<e.stop>>)
        \o (IF e.step = <<>> THEN <<>> ELSE <<e.step>>)

\* The k-th descriptor has the flags of its entry, and its operands stand in
\* the operand list right after those of the descriptors before it.
DescriptorMatches(k) ==
    LET item == ret.plan.items[k]
        e == ret.plan.tuple_val[item[1] + 1]
        off == FlagsUpTo(k - 1)
    IN  IF is_slice(e)
        THEN /\ item[2] = (e.start # <<>>) /\ item[3] = (e.stop # <<>>)
             /\ item[4] = (e.step # <<>>) /\ item[5] = FALSE
             /\ \A j \in 1..Len(GivenParts(e)) :
                   ret.plan.tensors[off + j] = index_operand(IntIdx(GivenParts(e)[j][1]))
        ELSE /\ item = <<item[1], FALSE, FALSE, FALSE, TRUE>>
             /\ ret.plan.tensors[off + 1] = index_operand(e)

\* C28: in every plan of the index normalizer a full slice has no descriptor
\* but takes an axis number; the axis fields of the descriptors are strictly
\* increasing and each is its entry's position in the normalized tuple; a slice
\* descriptor has its index flag false, a value descriptor its three slice
\* flags false and its index flag true; and the tensor operands are as many as
\* the true flags, in the order of the flags (start, stop, step in a slice).
C28_PlanDescriptors ==
    IndexPlanned =>
        LET items == ret.plan.items
        IN  /\ Len(items) = Cardinality(DescribedPositions)
            /\ {items[k][1] + 1 : k \in 1..Len(items)} = DescribedPositions
            /\ \A k \in 1..(Len(items) - 1) : items[k][1] < items[k + 1][1]
            /\ Len(ret.plan.tensors) = FlagsUpTo(Len(items))
            /\ \A k \in 1..Len(items) : DescriptorMatches(k)

\* (:, 0::1, t) on a tensor of shape (2,2,2): the full slice takes axis 0 and
\* has no descriptor, the slice and the index tensor are described on axes 1
\* and 2 with three operands.
C28_Witness ==
    /\ IndexPlanned
    /\ call.inp = TensorHandle(<<2, 2, 2>>)
    /\ call.idx.items = <<FullSlice, SliceOf(<<0>>, <<>>, <<1>>), IntTensorIdx(<<2>>)>>
    /\ ret.plan.items = <<<<1, TRUE, FALSE, TRUE, FALSE>>, <<2, FALSE, FALSE, FALSE, TRUE>>>>
    /\ Len(ret.plan.tensors) = 3

(***************************************************************************)
(* Axis lowering: list2vector, _expand_dims_cpp, _squeeze_cpp, _split_cpp. *)
(***************************************************************************)

\* The axis argument: an int, a Python sequence of ints, or None (squeeze).
IntAxis(a) == [form |-> "int", vals |-> <<a>>]

SeqAxis(s) == [form |-> "seq", vals |-> s]

NoneAxis == [form |-> "none", vals |-> <<>>]

\* list2vector: the ints of a sequence in order, or the one int.
list2vector(li) == li.vals

\* The local ndim of _expand_dims_cpp: axis.size() plus the operand's rank
\* when the shape is available.
expand_ndim_operand_rank(axis, inp) == IF inp.known THEN Len(inp.shape) ELSE 0

expand_ndim(axis, inp) == Len(axis) + (IF inp.known THEN Len(inp.shape) ELSE 0)

\* axis[i] += ndim for every negative entry.
resolve_negative(axis, ndim) ==
    [i \in 1..Len(axis) |-> IF axis[i] < 0 THEN axis[i] + ndim ELSE axis[i]]

\* std::sort(axis.begin(), axis.end()).
sort(axis) == SortSeq(axis, LAMBDA a, b : a < b)

AxisFailure(err, kind) == [err |-> err, msg |-> [kind |-> kind], prims |-> <<>>]

_expand_dims_cpp(inp, axis_hdl) ==
    LET axis == list2vector(axis_hdl)
        unknown_ndim == ~inp.known
        ndim == expand_ndim(axis, inp)
    IN  IF unknown_ndim /\ \E i \in 1..Len(axis) : axis[i] < 0
        THEN AxisFailure("IndexError", "negative_index_unknown_ndim")
        ELSE IF Len(axis) = 0
        THEN AxisFailure("IndexError", "axis_empty")
        ELSE [err |-> "none", msg |-> NoMsg,
              prims |-> <<Prim("AddAxis", "tensor", sort(resolve_negative(axis, ndim)))>>]

\* The axes of size 1, collected when axis is None and the shape is available.
RECURSIVE unit_axes(_, _)
unit_axes(shape, i) ==
    IF i >= Len(shape) THEN <<>>
    ELSE (IF shape[i + 1] = 1 THEN <<i>> ELSE <<>>) \o unit_axes(shape, i + 1)

\* axis[i] -= i, with i counted from 0.
shift_removed_none(axis) == axis

shift_removed(axis) == [i \in 1..Len(axis) |-> axis[i] - (i - 1)]

\* _squeeze_cpp declares ndim without a value and assigns it only when the
\* shape is available; uninit is what the local holds otherwise.
_squeeze_cpp(inp, axis_hdl, uninit) ==
    LET given == IF axis_hdl.form # "none" THEN list2vector(axis_hdl) ELSE <<>>
        ndim == IF inp.known THEN Len(inp.shape) ELSE uninit
        axis == IF inp.known /\ axis_hdl.form = "none" THEN unit_axes(inp.shape, 0) ELSE given
    IN  [err |-> "none", msg |-> NoMsg,
         prims |-> <<Prim("RemoveAxis", "tensor",
                          shift_removed(sort(resolve_negative(axis, ndim))))>>]

\* shape_obj[axis_hdl] on the Python shape tuple: negative indices count from
\* the end, anything outside raises IndexError.
shape_at(shape, axis) ==
    IF axis >= 0 /\ axis < Len(shape) THEN <<shape[axis + 1]>>
    ELSE IF axis < 0 /\ axis >= -Len(shape) THEN <<shape[Len(shape) + axis + 1]>>
    ELSE <<>>

\* The section-count bound of the integer branch.
sections_exceed_or_equal(n_sections, n_total) == n_sections >= n_total

sections_exceed(n_sections, n_total) == n_sections > n_total

\* The order test on two neighbouring division points.
descending_or_equal(before, after) == before >= after

descending(before, after) == before > after

\* The loop over div_points: a constant is made for every segment up to the
\* first descending pair, where the loop throws.
RECURSIVE split_partitions(_, _, _)
split_partitions(div_points, i, partitions) ==
    IF i > Len(div_points) THEN [ok |-> TRUE, partitions |-> partitions]
    ELSE IF descending(div_points[i - 1], div_points[i])
    THEN [ok |-> FALSE, partitions |-> partitions]
    ELSE split_partitions(div_points, i + 1,
                          Append(partitions, div_points[i] - div_points[i - 1]))

SplitResult(err, kind, prims, consts) ==
    [err |-> err, msg |-> [kind |-> kind], prims |-> prims, consts |-> consts]

_split_cpp(inp, nsplits_or_sections, axis) ==
    LET at == shape_at(inp.shape, axis)
        ndim == Len(inp.shape)
    IN  IF at = <<>> THEN SplitResult("IndexError", "tuple_index_out_of_range", <<>>, <<>>)
        ELSE IF axis >= ndim THEN SplitResult("ValueError", "invalid_axis", <<>>, <<>>)
        ELSE LET n_total == at[1]
             IN  IF nsplits_or_sections.form = "seq"
                 THEN LET div_points == <<0>> \o nsplits_or_sections.vals \o <<n_total>>
                          loop == split_partitions(div_points, 2, <<>>)
                      IN  IF ~loop.ok
                          THEN SplitResult("ValueError", "invalid_nsplits", <<>>,
                                           loop.partitions)
                          ELSE SplitResult("none", "none",
                                   <<Prim("Split", "tensor",
                                          [axis |-> axis, nsections |-> 0,
                                           partitions |-> loop.partitions])>>,
                                   loop.partitions)
                 ELSE LET n_sections == nsplits_or_sections.vals[1]
                      IN  IF n_sections <= 0
                          THEN SplitResult("ValueError", "sections_not_positive", <<>>, <<>>)
                          ELSE IF sections_exceed(n_sections, n_total)
                          THEN SplitResult("ValueError", "cannot_split", <<>>, <<>>)
                          ELSE SplitResult("none", "none",
                                   <<Prim("Split", "tensor",
                                          [axis |-> axis, nsections |-> n_sections,
                                           partitions |-> <<>>])>>,
                                   <<>>)

MaxAxes == 2

MaxAxisRank == 3

MaxPoints == 2

AxisLiterals == {-2, -1, 0, 1, 2}

AxisArgs == {IntAxis(a) : a \in AxisLiterals} \cup {SeqAxis(s) : s \in SeqsUpTo(AxisLiterals, MaxAxes)}

AxisOperands ==
    {[kind |-> k, known |-> TRUE, shape |-> s] :
        k \in {"tensor", "symvar"}, s \in SeqsUpTo({1, 2}, MaxAxisRank)}
    \cup {[kind |-> k, known |-> FALSE, shape |-> <<>>] : k \in {"tensor", "symvar"}}

\* What an unassigned size_t local cast to int32_t may hold.
UninitNdim == {-1, 0, 1, 5}

SplitOperands ==
    {[kind |-> k, known |-> TRUE, shape |-> s] :
        k \in {"tensor", "symvar"}, s \in SeqsUpTo({2, 3}, 2) \ {<<>>}}

SplitArgs ==
    {IntAxis(n) : n \in -1..4} \cup {SeqAxis(s) : s \in SeqsUpTo(-1..4, MaxPoints)}

AxisCalls ==
    {[op |-> "expand_dims", inp |-> inp, args |-> a, axis |-> 0] :
        inp \in AxisOperands, a \in AxisArgs}
    \cup {[op |-> "squeeze", inp |-> inp, args |-> a, axis |-> 0] :
            inp \in AxisOperands, a \in AxisArgs \cup {NoneAxis}}
    \cup {[op |-> "split", inp |-> inp, args |-> a, axis |-> x] :
            inp \in SplitOperands, a \in SplitArgs, x \in -2..2}

InitAxis ==
    /\ call \in AxisCalls
    /\ ret = Pending
    /\ segments = NoSegments
    /\ slots = NullSlots

DoExpandDims ==
    /\ call.op = "expand_dims"
    /\ ret = Pending
    /\ ret' = [state |-> "done", consts |-> <<>>] @@ _expand_dims_cpp(call.inp, call.args)
    /\ UNCHANGED <<call, segments, slots>>

DoSqueeze ==
    /\ call.op = "squeeze"
    /\ ret = Pending
    /\ \E uninit \in UninitNdim :
          ret' = [state |-> "done", consts |-> <<>>]
                     @@ _squeeze_cpp(call.inp, call.args, uninit)
    /\ UNCHANGED <<call, segments, slots>>

DoSplit ==
    /\ call.op = "split"
    /\ ret = Pending
    /\ ret' = [state |-> "done"] @@ _split_cpp(call.inp, call.args, call.axis)
    /\ UNCHANGED <<call, segments, slots>>

NextAxis == DoExpandDims \/ DoSqueeze \/ DoSplit

SpecAxis == InitAxis /\ [][NextAxis]_vars


(***************************************************************************)
(* Properties of expand_dims, squeeze and split.                           *)
(***************************************************************************)

AxisDone(op) == ret.state = "done" /\ call.op = op

GivenAxes == call.args.vals

HandedAxes == ret.prims[1].arg

Ascending(s) == \A i \in 1..(Len(s) - 1) : s[i] <= s[i + 1]

SameEntries(s, t) ==
    /\ Len(s) = Len(t)
    /\ \A v \in {s[i] : i \in DOMAIN s} \cup {t[i] : i \in DOMAIN t} :
          Cardinality({i \in DOMAIN s : s[i] = v}) = Cardinality({i \in DOMAIN t : t[i] = v})

\* The given axes with every negative one replaced by itself plus r.
ResolvedAgainst(r) ==
    [i \in 1..Len(GivenAxes) |-> IF GivenAxes[i] < 0 THEN GivenAxes[i] + r ELSE GivenAxes[i]]

\* The list before the i-th entry was decreased by i.
Unshifted(s) == [i \in 1..Len(s) |-> s[i] + (i - 1)]

HandsSorted(handed, resolved) == Ascending(handed) /\ SameEntries(handed, resolved)

OperandRank == Len(call.inp.shape)

\* C24 as stated: with the operand's rank r known, expand_dims and squeeze
\* replace every negative axis a by a + r before sorting the list and handing
\* it to the add-axis or remove-axis primitive.
C24_NegativeAxesAsStated ==
    /\ (AxisDone("expand_dims") /\ call.inp.known /\ ret.err = "none")
          => HandsSorted(HandedAxes, ResolvedAgainst(OperandRank))
    /\ (AxisDone("squeeze") /\ call.inp.known /\ call.args.form # "none")
          => HandsSorted(Unshifted(HandedAxes), ResolvedAgainst(OperandRank))

\* C24: with the operand's rank r known, squeeze replaces every negative axis
\* a by a + r, and expand_dims, given n axes, replaces it by a + r + n (the
\* rank of the result), before the list is sorted and handed to the primitive.
C24_NegativeAxes ==
    /\ (AxisDone("expand_dims") /\ call.inp.known /\ ret.err = "none")
          => HandsSorted(HandedAxes, ResolvedAgainst(OperandRank + Len(GivenAxes)))
    /\ (AxisDone("squeeze") /\ call.inp.known /\ call.args.form # "none")
          => HandsSorted(Unshifted(HandedAxes), ResolvedAgainst(OperandRank))

C24_Witness ==
    /\ AxisDone("expand_dims")
    /\ call.inp.known /\ call.inp.shape = <<2, 2>>
    /\ GivenAxes = <<-1, 0>>
    /\ ret.err = "none"
    /\ HandedAxes = <<0, 3>>

HasNegativeAxis == \E i \in 1..Len(GivenAxes) : GivenAxes[i] < 0

\* C25: with the operand's rank not known and a negative axis in the list,
\* expand_dims and squeeze fail with IndexError and construct no primitive.
C25_NegativeAxisUnknownRank ==
    (ret.state = "done" /\ call.op \in {"expand_dims", "squeeze"}
        /\ ~call.inp.known /\ HasNegativeAxis)
        => (ret.err = "IndexError" /\ ret.prims = <<>>)

SplitAxisValid == call.axis >= -Len(call.inp.shape) /\ call.axis < Len(call.inp.shape)

AxisSize ==
    call.inp.shape[IF call.axis >= 0 THEN call.axis + 1
                   ELSE Len(call.inp.shape) + call.axis + 1]

\* C26: split with an integer section count n on an axis of size s fails with
\* ValueError iff n > s or n <= 0, and otherwise builds the split primitive
\* with n sections, whether or not n divides s; a failed call builds nothing.
C26_SectionCount ==
    (AxisDone("split") /\ call.args.form = "int" /\ SplitAxisValid) =>
        LET n == call.args.vals[1]
        IN  /\ (ret.err = "ValueError") <=> (n > AxisSize \/ n <= 0)
            /\ ret.err \in {"ValueError", "none"}
            /\ ret.err = "none" =>
                  /\ Len(ret.prims) = 1
                  /\ ret.prims[1].op = "Split"
                  /\ ret.prims[1].arg.nsections = n
                  /\ ret.prims[1].arg.axis = call.axis
            /\ ret.err # "none" => ret.prims = <<>>

C26_Witness ==
    /\ AxisDone("split") /\ call.args.form = "int" /\ SplitAxisValid
    /\ call.args.vals[1] = 2 /\ AxisSize = 3
    /\ ret.err = "none"
    /\ ret.prims[1].arg.nsections = 2

RECURSIVE SumOf(_)
SumOf(s) == IF s = <<>> THEN 0 ELSE Head(s) + SumOf(Tail(s))

\* 0, p1, ..., pk, s
DivisionPoints == <<0>> \o call.args.vals \o <<AxisSize>>

\* C27: split with k explicit split points on an axis of size s succeeds iff
\* 0, p1, ..., pk, s is non-decreasing and otherwise fails with ValueError
\* with no primitive constructed; on success the primitive gets exactly k + 1
\* segment lengths, the consecutive differences in order, all >= 0, summing
\* to s.
C27_SplitPoints ==
    (AxisDone("split") /\ call.args.form = "seq" /\ SplitAxisValid) =>
        /\ (ret.err = "none") <=> Ascending(DivisionPoints)
        /\ ret.err # "none" => (ret.err = "ValueError" /\ ret.prims = <<>>)
        /\ ret.err = "none" =>
              LET lens == ret.prims[1].arg.partitions
              IN  /\ Len(ret.prims) = 1
                  /\ ret.prims[1].op = "Split"
                  /\ Len(lens) = Len(call.args.vals) + 1
                  /\ \A i \in 1..Len(lens) :
                        lens[i] = DivisionPoints[i + 1] - DivisionPoints[i] /\ lens[i] >= 0
                  /\ SumOf(lens) = AxisSize

C27_Witness ==
    /\ AxisDone("split") /\ call.args.form = "seq" /\ SplitAxisValid
    /\ call.args.vals = <<1, 1>> /\ AxisSize = 3
    /\ ret.err = "none"
    /\ ret.prims[1].arg.partitions = <<1, 0, 2>>

\* Every resolved axis names an axis of the operand, none twice.
DistinctValidAxes(resolved) ==
    /\ \A i \in 1..Len(resolved) : resolved[i] >= 0 /\ resolved[i] < OperandRank
    /\ \A i, j \in 1..Len(resolved) : i # j => resolved[i] # resolved[j]

\* C29: squeeze hands the remove-axis primitive the resolved axes sorted
\* ascending with the i-th entry (from 0) decreased by i; for distinct valid
\* axes that list is non-decreasing with every entry >= 0; and with no axis
\* list on an operand of known shape it is built from exactly the axes of
\* size 1.
C29_SqueezeAxes ==
    (AxisDone("squeeze") /\ call.inp.known) =>
        /\ ret.err = "none" /\ Len(ret.prims) = 1 /\ ret.prims[1].op = "RemoveAxis"
        /\ call.args.form # "none" =>
              /\ HandsSorted(Unshifted(HandedAxes), ResolvedAgainst(OperandRank))
              /\ DistinctValidAxes(ResolvedAgainst(OperandRank)) =>
                    (Ascending(HandedAxes) /\ \A i \in 1..Len(HandedAxes) : HandedAxes[i] >= 0)
        /\ call.args.form = "none" =>
              /\ Ascending(Unshifted(HandedAxes))
              /\ {Unshifted(HandedAxes)[i] + 1 : i \in 1..Len(HandedAxes)}
                    = {p \in 1..OperandRank : call.inp.shape[p] = 1}
              /\ Len(HandedAxes) = Cardinality({p \in 1..OperandRank : call.inp.shape[p] = 1})

C29_Witness ==
    /\ AxisDone("squeeze") /\ call.inp.known
    /\ call.inp.shape = <<1, 2, 1>>
    /\ GivenAxes = <<-1, 0>> /\ call.args.form = "seq"
    /\ HandedAxes = <<0, 1>>


(***************************************************************************)
(* dnn/src/cuda/conv_bias/depthwise_large_filter.cpp:                      *)
(* AlgoDepthwiseLargeFilter::is_available and ::exec.  A behaviour draws   *)
(* one argument set and the CUDA version the file is compiled for, asks    *)
(* is_available, and runs exec when the algorithm is available.            *)
(***************************************************************************)

\* DType::category() on the dtypes drawn here (the table is megdnn's dtype.h).
category(dtype) ==
    IF dtype \in {"Float32", "Float16", "BFloat16"} THEN "FLOAT"
    ELSE IF dtype = "Int8" THEN "INT"
    ELSE "QUANTIZED"

is_available_depthwise_large_filter(param, device_prop) ==
    LET flt_smem_w == ((param.flt_w + 3) \div 4) * 4
        flt_smem_h == 3
        flt_reg_per_thread ==
            IF flt_smem_w > 32 THEN (flt_smem_w + 31) \div 32 ELSE 1 + flt_smem_w \div 4
        ow == IF param.out_w > 64 THEN 64 ELSE param.out_w
        src_smem_w == ow + flt_smem_w - 1
        src_smem_h == flt_smem_h + param.flt_h - 1
        src_reg_per_thread ==
            IF src_smem_w > 128 THEN (flt_smem_w + 127) \div 128
            ELSE 1 + (ow + 3) \div 4 + flt_smem_w \div 4 - 1
        out_reg_per_thread == ((ow + 3) \div 4) * 4
    IN  IF \/ device_prop.regsPerBlock
                 < 4 * 32 * (flt_reg_per_thread + src_reg_per_thread + out_reg_per_thread)
           \/ device_prop.sharedMemPerBlock
                 < flt_smem_w * flt_smem_h + src_smem_w * src_smem_h
        THEN FALSE
        ELSE /\ param.stride_h = 1 /\ param.stride_w = 1
             /\ param.src_h = param.out_h /\ param.src_w = param.out_w

\* The second operand of the dtype test: the Float16 disjunct is compiled in
\* for CUDA_VERSION >= 9000 only.
src_dtype_rejected(src_dtype, cuda9) ==
    src_dtype # "Float32" \/ (cuda9 /\ src_dtype # "Float16")

is_available(args) ==
    IF ~args.src_contiguous \/ ~args.dst_contiguous THEN FALSE
    ELSE IF args.src_dtype # args.filter_dtype /\ src_dtype_rejected(args.src_dtype, args.cuda9)
    THEN FALSE
    ELSE IF args.z_ndim > 0 THEN FALSE
    ELSE LET fm == args.filter_meta
         IN  /\ fm.group > 1
             /\ fm.format = "NCHW"
             /\ category(args.src_dtype) = "FLOAT"
             /\ args.compute_mode = "DEFAULT"
             /\ fm.spatial_ndim = 2
             /\ fm.icpg = 1
             /\ fm.dilation[1] = 1
             /\ fm.dilation[2] = 1
             /\ ~fm.should_flip
             /\ is_available_depthwise_large_filter(args.param, args.device_prop)

\* exec: where the convolution writes, the kernel the dtype switch runs, and
\* whether handle_bias_and_nonlinear is reached (the default branch throws).
exec(args) ==
    LET conv_dst == IF args.dst_dtype # args.bias_dtype THEN "workspace" ELSE "dst_tensor"
        kernel == IF args.src_dtype = "Float32" THEN "float"
                  ELSE IF args.cuda9 /\ args.src_dtype = "Float16" THEN "half"
                  ELSE "megdnn_assert_internal"
    IN  [state |-> "done", available |-> TRUE, conv_dst |-> conv_dst, kernel |-> kernel,
         bias_handled |-> kernel # "megdnn_assert_internal"]

ConvDTypes == {"Float32", "Float16", "BFloat16", "Int8"}

GoodFilterMeta ==
    [group |-> 2, format |-> "NCHW", spatial_ndim |-> 2, icpg |-> 1,
     dilation |-> <<1, 1>>, should_flip |-> FALSE]

FilterMetas ==
    {GoodFilterMeta,
     [GoodFilterMeta EXCEPT !.group = 1],
     [GoodFilterMeta EXCEPT !.format = "NHWC"],
     [GoodFilterMeta EXCEPT !.spatial_ndim = 3],
     [GoodFilterMeta EXCEPT !.icpg = 2],
     [GoodFilterMeta EXCEPT !.dilation = <<2, 1>>],
     [GoodFilterMeta EXCEPT !.dilation = <<1, 2>>],
     [GoodFilterMeta EXCEPT !.should_flip = TRUE]}

SameSizeParams ==
    {[flt_w |-> f, flt_h |-> f, out_w |-> w, out_h |-> w, src_w |-> w, src_h |-> w,
      stride_h |-> 1, stride_w |-> 1] : f \in {3, 35, 67}, w \in {8, 100}}

SmallParam ==
    [flt_w |-> 3, flt_h |-> 3, out_w |-> 8, out_h |-> 8, src_w |-> 8, src_h |-> 8,
     stride_h |-> 1, stride_w |-> 1]

ChanwiseParams ==
    SameSizeParams
    \cup {[SmallParam EXCEPT !.stride_h = 2], [SmallParam EXCEPT !.stride_w = 2],
          [SmallParam EXCEPT !.src_h = 10], [SmallParam EXCEPT !.src_w = 10]}

DeviceProps ==
    {[regsPerBlock |-> 65536, sharedMemPerBlock |-> 49152],
     [regsPerBlock |-> 8192, sharedMemPerBlock |-> 49152],
     [regsPerBlock |-> 65536, sharedMemPerBlock |-> 2048]}

ConvCalls ==
    [op : {"conv_bias"}, cuda9 : BOOLEAN,
     src_contiguous : BOOLEAN, dst_contiguous : BOOLEAN,
     src_dtype : ConvDTypes, filter_dtype : ConvDTypes,
     dst_dtype : {"Float32"}, bias_dtype : {"Float32", "Float16"},
     z_ndim : {0, 4}, compute_mode : {"DEFAULT", "FLOAT32"},
     filter_meta : FilterMetas, param : ChanwiseParams, device_prop : DeviceProps]

InitConv ==
    /\ call \in ConvCalls
    /\ ret = Pending
    /\ segments = NoSegments
    /\ slots = NullSlots

IsAvailable ==
    /\ call.op = "conv_bias"
    /\ ret = Pending
    /\ ret' = [state |-> "checked", available |-> is_available(call)]
    /\ UNCHANGED <<call, segments, slots>>

Exec ==
    /\ call.op = "conv_bias"
    /\ ret.state = "checked"
    /\ ret.available
    /\ ret' = exec(call)
    /\ UNCHANGED <<call, segments, slots>>

NextConv == IsAvailable \/ Exec

SpecConv == InitConv /\ [][NextConv]_vars

\* C30: on every argument set for which is_available returns true, exec runs
\* the Float32 or the Float16 kernel and never reaches the default branch of
\* its dtype switch: is_available admits no source dtype of the float category
\* other than the ones exec handles.
C30_AvailableImpliesKernel ==
    (call.op = "conv_bias" /\ ret.state = "done")
        => (ret.kernel \in {"float", "half"} /\ call.src_dtype \in {"Float32", "Float16"})

====
